---- MODULE Spec2Model ----
(***************************************************************************)
(* DayEdge scanner: the scoring engine (scanner.py score_stock_v4), the    *)
(* outcome history (update_outcomes, save_scan_to_history), the adjustment *)
(* model (train_ml_model, get_ml_adjustment), the evening scan             *)
(* (run_scanner), the persisted artifacts (save_json, load_json), the      *)
(* morning confirmation (run_morning_scan), the trade log                  *)
(* (get_personal_stats, app.py update_trade_log), the feature extractors   *)
(* get_short_squeeze_score and get_sector_leader_score, the backtest       *)
(* (run_backtest) and the scan dispatcher of app.py (manual triggers,      *)
(* background threads, scheduler jobs).                                    *)
(*                                                                         *)
(* Units.  Python floats are modelled as scaled integers:                  *)
(*   percentages and ratios (gap_pct, rvol, atr_pct, adx, pm_change,       *)
(*   pm_vol_pct, rr_ratio, gap_atr_ratio, ml_adj, outcome_pct) in          *)
(*   hundredths; a score in tenths (42 is 4.2); dollar_vol in dollars;     *)
(*   prices (last_close, bar prices) in 1/10000 of a dollar; the feature   *)
(*   extractors and the backtest state their own units.                    *)
(* Python None is the empty sequence None, a present optional value v is   *)
(* the one-element sequence <<v>>.                                         *)
(***************************************************************************)
EXTENDS Integers, Sequences, FiniteSets, TLC

VARIABLES
    features,      \* scoring: the feature record handed to score_stock_v4
    ml_adj,        \* scoring: the model adjustment handed to score_stock_v4
    scored,        \* scoring: what run_scanner holds for the symbol after scoring
    today,         \* the calendar date datetime.now() reports (day number)
    history_file,  \* content of HISTORY_FILE (scan_history.json)
    lastop,        \* the history operation that ran last, with what it was given
    results_file,  \* RESULTS_FILE (scan_results.json): None while there is no file,
                   \* else Some of the "results" list it holds
    morning_file,  \* content of MORNING_FILE (morning_golist.json), None if never written
    morning_in,    \* what the market-data gateway returned to the last run_morning_scan
    scan_status,   \* app.py scan_status
    threads,       \* the background threads of the manual triggers, the
                   \* scheduler's two job workers and the thread that serves
                   \* GET /api/scan, each with its position
    response,      \* the manual triggers' answers: the status the last one
                   \* answered with, and how many have started their thread
                   \* and not answered yet
    latest_results, \* app.py latest_results: None, or Some of the "results"
                   \* list of the scan it holds
    started,       \* how many scans the triggers and the scheduler have started
    ml_file,       \* content of ML_MODEL_FILE (ml_weights.json), None if absent
    ml_available,  \* ML_AVAILABLE: whether sklearn could be imported
    ml_log,        \* what train_ml_model and get_ml_adjustment last reported
    gap_file,      \* content of GAP_HISTORY_FILE (gap_history.json) per symbol
    scan,          \* run_scanner: its position, its locals and what it was given
    disk,          \* save_json / load_json: the artifact as it is on disk,
                   \* None if the file does not exist
    save_error,    \* whether the last save_json logged "Error saving"
    saving,        \* the run that called save_json and has not returned yet
    returned,      \* what the run that saved last returned to its caller
    loaded,        \* what the last load_json returned
    trade_log,     \* content of TRADE_LOG_FILE (trade_log.json), None if absent
    call,          \* feature extractors: the function called last and its inputs
    result,        \* feature extractors: what that call returned
    backtest       \* run_backtest: its position, its locals and what it was given

vars == <<features, ml_adj, scored, today, history_file, lastop,
          results_file, morning_file, morning_in, scan_status, threads, response,
          latest_results, started, ml_file, ml_available, ml_log, gap_file, scan, disk, save_error,
          saving, returned, loaded, trade_log, call, result, backtest>>

scoreVars    == <<features, ml_adj, scored>>
histVars     == <<today, history_file, lastop>>
morningVars  == <<results_file, morning_file, morning_in>>
dispatchVars == <<scan_status, threads, response, latest_results, started>>
mlVars       == <<ml_file, ml_available, ml_log>>
scanVars     == <<gap_file, scan>>
saveVars     == <<disk, save_error, saving, returned, loaded>>
logVars      == <<trade_log>>
callVars     == <<call, result>>
btVars       == <<backtest>>

None == <<>>

Some(v) == <<v>>

Min(a, b) == IF a <= b THEN a ELSE b

Max(a, b) == IF a >= b THEN a ELSE b

\* Python round(): n/d (d > 0) to the nearest integer, ties to the even one.
PyRound(n, d) ==
    LET q == n \div d
        r == n % d
    IN  IF 2 * r < d THEN q
        ELSE IF 2 * r > d THEN q + 1
        ELSE IF q % 2 = 0 THEN q ELSE q + 1

RECURSIVE SumSeq(_)
SumSeq(s) == IF s = <<>> THEN 0 ELSE Head(s) + SumSeq(Tail(s))

RECURSIVE Flatten(_)
Flatten(s) == IF s = <<>> THEN <<>> ELSE Head(s) \o Flatten(Tail(s))

(***************************************************************************)
(* Python floats: IEEE 754 binary64, round to nearest, ties to even.  A    *)
(* natural number of any size is a sequence of limbs, lowest first, each   *)
(* in 0..LIMB-1, with no zero limb at the top; a float is [s, m, e] of     *)
(* value s * m * 2^e with the 53-bit significand m such a number (empty    *)
(* for 0.0).  Subnormals, infinities and NaN are out of the range of the   *)
(* prices and ratios the scanner computes.                                 *)
(***************************************************************************)

\* the bits of a limb: the product of two limbs stays within the 31 bits an
\* integer of the model checker holds
LIMB_BITS == 31 \div 2

LIMB == 2^LIMB_BITS

\* the bits of a significand: of the 64 bits of a binary64, 11 hold the
\* exponent, and the sign takes the place of the leading 1, which is not
\* stored
SIGNIFICAND_BITS == 64 - 11

\* 2^n for n in 0..LIMB_BITS
Pow2(n) ==
    <<1, 2, 4, 8, 16, 32, 64, 128, 256, 512, 1024, 2048, 4096, 8192, 16384, 32768>>[n + 1]

\* the bits of n in 0..LIMB-1
BitLen(n) == Cardinality({k \in 0..(LIMB_BITS - 1) : Pow2(k) <= n})

Abs(n) == IF n < 0 THEN -n ELSE n

\* x without its lowest limb
RestLimbs(x) == IF x = <<>> THEN <<>> ELSE Tail(x)

\* the lowest limb of x
LowLimb(x) == IF x = <<>> THEN 0 ELSE Head(x)

\* the highest limb of x # 0
TopLimb(x) == x[Len(x)]

\* x # 0 without its highest limb
LowerLimbs(x) == SubSeq(x, 1, Len(x) - 1)

RECURSIVE BigOfInt(_)
BigOfInt(n) == IF n = 0 THEN <<>> ELSE <<n % LIMB>> \o BigOfInt(n \div LIMB)

RECURSIVE BigToInt(_)
BigToInt(x) == IF x = <<>> THEN 0 ELSE Head(x) + LIMB * BigToInt(Tail(x))

\* x without the zero limbs at its top
BigTrim(x) == SubSeq(x, 1, Cardinality({i \in 1..Len(x) : \E j \in i..Len(x) : x[j] # 0}))

\* x + y + c
RECURSIVE BigAddCarry(_, _, _)
BigAddCarry(x, y, c) ==
    IF x = <<>> /\ y = <<>> THEN BigOfInt(c)
    ELSE <<(LowLimb(x) + LowLimb(y) + c) % LIMB>>
             \o BigAddCarry(RestLimbs(x), RestLimbs(y),
                            (LowLimb(x) + LowLimb(y) + c) \div LIMB)

BigAdd(x, y) == BigAddCarry(x, y, 0)

\* x - y - b for x >= y + b, with zero limbs left at the top
RECURSIVE BigSubBorrow(_, _, _)
BigSubBorrow(x, y, b) ==
    IF x = <<>> THEN <<>>
    ELSE <<(Head(x) - LowLimb(y) - b) % LIMB>>
             \o BigSubBorrow(Tail(x), RestLimbs(y),
                             IF Head(x) - LowLimb(y) - b < 0 THEN 1 ELSE 0)

BigSub(x, y) == BigTrim(BigSubBorrow(x, y, 0))

\* the highest limb at which x and y of one length differ, 0 if none
TopDifference(x, y) == Cardinality({i \in 1..Len(x) : \E j \in i..Len(x) : x[j] # y[j]})

\* -1, 0 or 1 as x is below, equal to or above y, at the limb i where they
\* differ
BigCmpAt(x, y, i) == IF i = 0 THEN 0 ELSE IF x[i] < y[i] THEN -1 ELSE 1

\* -1, 0 or 1 as x is below, equal to or above y
BigCmp(x, y) ==
    IF Len(x) # Len(y) THEN (IF Len(x) < Len(y) THEN -1 ELSE 1)
    ELSE BigCmpAt(x, y, TopDifference(x, y))

\* x * k + c for 0 <= k < LIMB
RECURSIVE BigMulInt(_, _, _)
BigMulInt(x, k, c) ==
    IF x = <<>> THEN BigOfInt(c)
    ELSE <<(Head(x) * k + c) % LIMB>> \o BigMulInt(Tail(x), k, (Head(x) * k + c) \div LIMB)

RECURSIVE BigMul(_, _)
BigMul(x, y) ==
    IF x = <<>> \/ y = <<>> THEN <<>>
    ELSE BigTrim(BigAdd(BigMulInt(x, Head(y), 0),
                        IF Tail(y) = <<>> THEN <<>> ELSE <<0>> \o BigMul(x, Tail(y))))

\* the division of st.r * LIMB^Len(st.x) + st.x by d, 0 < d <= 2 * LIMB, from
\* the top limb down: st.q holds the quotient limbs found so far, st.r < d
RECURSIVE DivIntFrom(_, _)
DivIntFrom(st, d) ==
    IF st.x = <<>> THEN [q |-> BigTrim(st.q), r |-> st.r]
    ELSE DivIntFrom([x |-> LowerLimbs(st.x),
                     q |-> <<(st.r * LIMB + TopLimb(st.x)) \div d>> \o st.q,
                     r |-> (st.r * LIMB + TopLimb(st.x)) % d], d)

\* [q, r] of x divided by d, 0 < d <= 2 * LIMB
BigDivInt(x, d) == DivIntFrom([x |-> x, q |-> <<>>, r |-> 0], d)

BigBits(x) == IF x = <<>> THEN 0 ELSE LIMB_BITS * (Len(x) - 1) + BitLen(TopLimb(x))

\* x * p for a power p of two below LIMB
ShlBits(x, p) ==
    [i \in 1..(Len(x) + 1) |->
        (IF i <= Len(x) THEN (x[i] * p) % LIMB ELSE 0)
            + (IF i > 1 THEN (x[i - 1] * p) \div LIMB ELSE 0)]

\* x * 2^n
BigShl(x, n) ==
    IF x = <<>> THEN <<>>
    ELSE [i \in 1..(n \div LIMB_BITS) |-> 0] \o BigTrim(ShlBits(x, Pow2(n % LIMB_BITS)))

\* x \div p for a power p of two below LIMB
ShrBits(x, p) ==
    [i \in 1..Len(x) |->
        x[i] \div p + (IF i < Len(x) THEN (x[i + 1] % p) * (LIMB \div p) ELSE 0)]

\* x \div 2^n
BigShr(x, n) ==
    IF n \div LIMB_BITS >= Len(x) THEN <<>>
    ELSE BigTrim(ShrBits(SubSeq(x, n \div LIMB_BITS + 1, Len(x)), Pow2(n % LIMB_BITS)))

\* x % 2^n
BigLow(x, n) ==
    IF n \div LIMB_BITS >= Len(x) THEN x
    ELSE BigTrim(SubSeq(x, 1, n \div LIMB_BITS)
                     \o <<x[n \div LIMB_BITS + 1] % Pow2(n % LIMB_BITS)>>)

\* whether y * d <= n
DigitFits(n, y, d) == BigCmp(BigTrim(BigMulInt(y, d, 0)), n) <= 0

\* the largest d in lo..hi with y * d <= n, where y * lo <= n
RECURSIVE QuotientDigit(_, _, _, _)
QuotientDigit(n, y, lo, hi) ==
    IF lo = hi THEN lo
    ELSE IF DigitFits(n, y, (lo + hi + 1) \div 2)
        THEN QuotientDigit(n, y, (lo + hi + 1) \div 2, hi)
    ELSE QuotientDigit(n, y, lo, (lo + hi + 1) \div 2 - 1)

\* n \div LIMB^(m - 1) for n < LIMB^(m + 1)
TopPart(n, m) ==
    IF Len(n) < m THEN 0
    ELSE IF Len(n) = m THEN n[m]
    ELSE n[m + 1] * LIMB + n[m]

\* the digit n \div y of n < y * LIMB: between the quotients of the top part
\* of n by the top limb of y and by that limb plus one
DivModDigit(n, y) ==
    QuotientDigit(n, y, TopPart(n, Len(y)) \div (TopLimb(y) + 1),
                  IF TopPart(n, Len(y)) \div TopLimb(y) < LIMB
                      THEN TopPart(n, Len(y)) \div TopLimb(y)
                  ELSE LIMB - 1)

\* one step of the long division: the digit d of n over y goes below the
\* quotient limbs q found so far, x being the limbs still to bring down
DivModPut(x, q, n, y, d) ==
    [x |-> x, q |-> <<d>> \o q, r |-> BigSub(n, BigTrim(BigMulInt(y, d, 0)))]

DivModStep(x, q, n, y) == DivModPut(x, q, n, y, DivModDigit(n, y))

\* the division of st.r * LIMB^Len(st.x) + st.x by y > 0, from the top limb
\* down, st.r < y
RECURSIVE DivModFrom(_, _)
DivModFrom(st, y) ==
    IF st.x = <<>> THEN [q |-> BigTrim(st.q), r |-> st.r]
    ELSE DivModFrom(DivModStep(LowerLimbs(st.x), st.q,
                               BigTrim(<<TopLimb(st.x)>> \o st.r), y), y)

\* [q, r] of x divided by y, y > 0
BigDivMod(x, y) == DivModFrom([x |-> x, q |-> <<>>, r |-> <<>>], y)

\* |x - y|
BigAbsDiff(x, y) == IF BigCmp(x, y) >= 0 THEN BigSub(x, y) ELSE BigSub(y, x)

\* -1, 0 or 1 as n % 2^sh is below, equal to or above half of 2^sh
HalfCmp(n, sh) == BigCmp(BigLow(n, sh), BigShl(<<1>>, sh - 1))

\* whether the quotient q, left with a remainder that compares as c to one
\* half, rounds up: above one half, or at one half (ties to even) when more
\* lies below the remainder (sticky) or q is odd
RoundsUp(c, q, sticky) == c > 0 \/ (c = 0 /\ (sticky \/ LowLimb(q) % 2 = 1))

NearestFrom(q, c, sticky) == IF RoundsUp(c, q, sticky) THEN BigAdd(q, <<1>>) ELSE q

\* the integer nearest to (n + f) / 2^sh for sh > 0, ties to even, where
\* 0 < f < 1 if sticky and f = 0 otherwise
NearestShr(n, sh, sticky) == NearestFrom(BigShr(n, sh), HalfCmp(n, sh), sticky)

FZero == [s |-> 1, m |-> <<>>, e |-> 0]

\* s * m * 2^e for m of 53 or 54 bits, 54 only as a power of two
FNormal(s, m, e) ==
    IF BigBits(m) > SIGNIFICAND_BITS THEN [s |-> s, m |-> BigShr(m, 1), e |-> e + 1]
    ELSE [s |-> s, m |-> m, e |-> e]

\* FRound for n # 0 with sh bits more than a significand holds
FRoundBy(s, n, e, sticky, sh) ==
    IF sh <= 0 THEN [s |-> s, m |-> BigShl(n, -sh), e |-> e + sh]
    ELSE FNormal(s, NearestShr(n, sh, sticky), e + sh)

\* the float nearest to s * (n + f) * 2^e, ties to the even significand,
\* where 0 < f < 1 if sticky and f = 0 otherwise; a sticky n has 54 bits
\* or more
FRound(s, n, e, sticky) ==
    IF n = <<>> THEN FZero
    ELSE FRoundBy(s, n, e, sticky, BigBits(n) - SIGNIFICAND_BITS)

\* the quotient bits kept beyond the significand before rounding: five limbs
GUARD_BITS == 5 * LIMB_BITS

\* the bits a significand is moved up by before it is divided by another:
\* four limbs
QUOTIENT_BITS == 4 * LIMB_BITS

\* the bits that fill the top limb of a significand, which takes four limbs
FILL_BITS == 4 * LIMB_BITS - SIGNIFICAND_BITS

\* the float nearest to s * (qr.q + f) * 2^e, f the fraction that the
\* remainder qr.r (an integer) stands for
FRoundIntQuotient(s, qr, e) == FRound(s, qr.q, e, qr.r # 0)

\* the same for a remainder in limbs
FRoundBigQuotient(s, qr, e) == FRound(s, qr.q, e, qr.r # <<>>)

\* float(n / d) for integers n and 0 < d <= 2 * LIMB: the float a decimal
\* literal or a parsed JSON number n/d denotes
FOfRatio(n, d) ==
    FRoundIntQuotient(IF n < 0 THEN -1 ELSE 1,
                      BigDivInt(BigShl(BigOfInt(Abs(n)), GUARD_BITS), d),
                      -GUARD_BITS)

FNeg(a) == [a EXCEPT !.s = -a.s]

\* the lower of the exponents of a and b
FMinExp(a, b) == IF a.e < b.e THEN a.e ELSE b.e

\* the significand of a at the exponent e <= a.e
FAlign(a, e) == BigShl(a.m, a.e - e)

\* -1, 0 or 1 as |a| is below, equal to or above |b|
FCmpAbs(a, b) == BigCmp(FAlign(a, FMinExp(a, b)), FAlign(b, FMinExp(a, b)))

\* -1, 0 or 1 as a is below, equal to or above b
FCmp(a, b) ==
    IF a.m = <<>> /\ b.m = <<>> THEN 0
    ELSE IF a.m = <<>> THEN -b.s
    ELSE IF b.m = <<>> THEN a.s
    ELSE IF a.s # b.s THEN a.s
    ELSE a.s * FCmpAbs(a, b)

\* sa * x * 2^e + sb * y * 2^e
FAddAligned(sa, x, sb, y, e) ==
    FRound(IF sa = sb \/ BigCmp(x, y) >= 0 THEN sa ELSE sb,
           IF sa = sb THEN BigAdd(x, y) ELSE BigAbsDiff(x, y),
           e, FALSE)

\* a + b
FAdd(a, b) ==
    IF a.m = <<>> THEN b
    ELSE IF b.m = <<>> THEN a
    ELSE FAddAligned(a.s, FAlign(a, FMinExp(a, b)), b.s, FAlign(b, FMinExp(a, b)),
                     FMinExp(a, b))

\* a - b
FSub(a, b) == FAdd(a, FNeg(b))

\* a * b
FMul(a, b) ==
    IF a.m = <<>> \/ b.m = <<>> THEN FZero
    ELSE FRound(a.s * b.s, BigMul(a.m, b.m), a.e + b.e, FALSE)

\* a / b for b # 0.0 (the divisors of the scanner are prices and ranges it
\* has found above zero); the significand of b fills its limbs
FDiv(a, b) ==
    IF a.m = <<>> \/ b.m = <<>> THEN FZero
    ELSE FRoundBigQuotient(a.s * b.s,
                           BigDivMod(BigShl(a.m, QUOTIENT_BITS + FILL_BITS),
                                     BigShl(b.m, FILL_BITS)),
                           a.e - b.e - QUOTIENT_BITS)

\* Python's round(a, ndigits) as an integer count of 1/scale (scale is 10 to
\* the ndigits): the integer nearest to a * scale, computed on the exact value
\* of the float, ties to the even integer
FRoundTo(a, scale) ==
    IF a.m = <<>> THEN 0
    ELSE IF a.e >= 0 THEN a.s * BigToInt(BigShl(BigMulInt(a.m, scale, 0), a.e))
    ELSE a.s * BigToInt(NearestShr(BigMulInt(a.m, scale, 0), -a.e, FALSE))

\* round(a, 2) of a Python float, in hundredths
FRound2(a) == FRoundTo(a, 100)

\* round(a, 1) of a Python float, in tenths
FRound1(a) == FRoundTo(a, 10)

\* round(a, 2) of a numpy.float64, in hundredths: numpy multiplies by 100 in
\* floating point and takes rint of the product (ties to the even integer)
NpRound2(a) == FRoundTo(FMul(a, FOfRatio(100, 1)), 1)

\* a price kept in 1/10000 of a dollar, as the float of its decimal
FPrice(p) == FOfRatio(p, 10000)

\* a value kept in hundredths, as the float of its decimal
FHundredths(h) == FOfRatio(h, 100)

\* a + b for every b of the sequence q in its order, as numpy sums a short array
RECURSIVE FSumFrom(_, _)
FSumFrom(a, q) == IF q = <<>> THEN a ELSE FSumFrom(FAdd(a, Head(q)), Tail(q))

\* whether n/d (d > 0) lies exactly half way between two integers
IsTie(n, d) == 2 * (n % d) = d

\* ((to - from) / from) * 100 as the floats compute it, for two prices in
\* cents, from above zero
PercentChange(to, from) ==
    FMul(FDiv(FSub(FHundredths(to), FHundredths(from)), FHundredths(from)),
         FOfRatio(100, 1))

\* round((wins / total) * 100, 1) in tenths of a percent, total > 0; on a
\* half tenth the floats decide
WinRate(wins, total) ==
    IF ~IsTie(wins * 1000, total) THEN PyRound(wins * 1000, total)
    ELSE FRound1(FMul(FDiv(FOfRatio(wins, 1), FOfRatio(total, 1)), FOfRatio(100, 1)))

\* the prices below which the exact products of this module stay within the
\* integers of the model checker: 100 dollars, in 1/10000 of a dollar
EXACT_BELOW == 100 * 10000

(***************************************************************************)
(* Scoring engine                                                          *)
(***************************************************************************)

\* the values features.get(key, default) yields for an absent key
FeatureDefaults ==
    [gap_pct |-> 0, rvol |-> 100, atr_pct |-> 0, tech_score |-> 0,
     has_catalyst |-> FALSE, last_close |-> 0, spy_modifier |-> 0,
     sector_score |-> 0, float_score |-> 0, earnings_risky |-> FALSE,
     rs_score |-> 0, pm_change |-> 0, rr_ratio |-> None, adx |-> 0,
     weekly_trend |-> 0, dollar_vol |-> 0, gap_fill_modifier |-> 0,
     unusual_options |-> FALSE, institutional_score |-> 0,
     short_squeeze_score |-> 0, sector_leader_score |-> 0, pm_vol_pct |-> 0,
     sentiment_score |-> 0, gap_atr_ratio |-> 0,
     earnings_is_reliable_gapper |-> FALSE]

\* run_scanner skips a symbol below this dollar volume (line 948)
DOLLAR_VOL_SKIP == 5000000

DOLLAR_VOL_FLOOR == 10000000

\* the adjustment get_ml_adjustment returns when it is nan: a value that is
\* no adjustment
NAN_ADJUSTMENT == 100000

\* a feature that is nan (calculate_gap_percent rounds and returns the nan
\* of a bar without prices, line 555): a value that is no amount, above
\* every band of the rules as no comparison with nan holds
NAN_FEATURE == 999999999

SCORE_DIVISOR == 26

Rule(pts, why) == [pts |-> pts, why |-> why]

NoRule == Rule(0, <<>>)

\* the relative-volume rule with its top band worth less than the one below
RvolRuleDent(rvol) ==
    IF rvol >= 300 THEN Rule(1, <<"Very high RVOL">>)
    ELSE IF rvol >= 200 THEN Rule(2, <<"High RVOL">>)
    ELSE IF rvol >= 150 THEN Rule(1, <<"Above avg RVOL">>)
    ELSE Rule(0, <<"Low RVOL">>)

\* the relative-volume rule (lines 1080-1083)
RvolRule(rvol) ==
    IF rvol >= 300 THEN Rule(3, <<"Very high RVOL">>)
    ELSE IF rvol >= 200 THEN Rule(2, <<"High RVOL">>)
    ELSE IF rvol >= 150 THEN Rule(1, <<"Above avg RVOL">>)
    ELSE Rule(0, <<"Low RVOL">>)

\* one entry per if/elif chain of score_stock_v4, in source order
ScoreRules(f, adj) ==
    LET g == f.gap_pct            rvol == f.rvol
        atr == f.atr_pct          tech == f.tech_score
        cat == f.has_catalyst     last == f.last_close
        spy == f.spy_modifier     sec == f.sector_score
        flt == f.float_score      earn == f.earnings_risky
        rs == f.rs_score          pm == f.pm_change
        rr == f.rr_ratio          adx == f.adx
        wt == f.weekly_trend      gfm == f.gap_fill_modifier
        uo == f.unusual_options   inst == f.institutional_score
        squeeze == f.short_squeeze_score
        leader == f.sector_leader_score
        pm_vol == f.pm_vol_pct    sentiment == f.sentiment_score
        gap_atr == f.gap_atr_ratio
        reliable_gapper == f.earnings_is_reliable_gapper
        pts == PyRound(adj * 2, 100)
    IN  << IF 200 <= g /\ g <= 800 THEN Rule(3, <<"Ideal gap">>)
           ELSE IF 800 < g /\ g <= 1500 THEN Rule(2, <<"Large gap - may be extended">>)
           ELSE IF 50 <= g /\ g < 200 THEN Rule(1, <<"Small gap">>)
           ELSE IF g < -200 THEN Rule(-1, <<"Gapping down">>)
           ELSE NoRule,
           IF gap_atr >= 300 THEN Rule(1, <<"Gap is 3x ATR - significant move">>)
           ELSE IF gap_atr >= 200 THEN Rule(0, <<"Gap is 2x ATR - solid move">>)
           ELSE NoRule,
           IF gfm > 0 THEN Rule(gfm, <<"Historically continues gaps">>)
           ELSE IF gfm < 0 THEN Rule(gfm, <<"Historically fills gaps - caution">>)
           ELSE Rule(gfm, <<>>),
           IF pm > 200 THEN Rule(2, <<"Strong pre-market">>)
           ELSE IF pm > 50 THEN Rule(1, <<"Pre-market positive">>)
           ELSE IF pm < -100 THEN Rule(-1, <<"Pre-market weak">>)
           ELSE NoRule,
           IF pm_vol > 2000 THEN Rule(1, <<"Heavy pre-market volume">>)
           ELSE IF pm_vol > 1000 THEN Rule(0, <<"Decent pre-market volume">>)
           ELSE NoRule,
           RvolRule(rvol),
           IF tech = 3 THEN Rule(tech, <<"Strong technical setup">>)
           ELSE IF tech = 2 THEN Rule(tech, <<"Decent technical setup">>)
           ELSE IF tech = 1 THEN Rule(tech, <<"Weak technical setup">>)
           ELSE Rule(tech, <<>>),
           IF inst >= 3 THEN Rule(2, <<"Above VWAP + all key MAs - institutional support">>)
           ELSE IF inst = 2 THEN Rule(1, <<"Above most key levels">>)
           ELSE IF inst = 1 THEN Rule(0, <<"Mixed signals on key levels">>)
           ELSE IF inst = 0 THEN Rule(-1, <<"Below key institutional levels">>)
           ELSE NoRule,
           IF adx > 3000 THEN Rule(2, <<"Very strong trend">>)
           ELSE IF adx > 2500 THEN Rule(1, <<"Strong trend">>)
           ELSE IF adx < 2000 THEN Rule(-1, <<"Choppy/weak trend">>)
           ELSE NoRule,
           IF wt = 1 THEN Rule(2, <<"Weekly uptrend confirmed">>)
           ELSE IF wt = -1 THEN Rule(-2, <<"Fighting weekly downtrend">>)
           ELSE NoRule,
           IF squeeze >= 2 THEN Rule(2, <<"High short interest - squeeze potential!">>)
           ELSE IF squeeze = 1 THEN Rule(1, <<"Moderate short interest - some squeeze risk">>)
           ELSE NoRule,
           IF leader >= 2 THEN Rule(2, <<"Sector leader - strongest in hot sector!">>)
           ELSE IF leader = 1 THEN Rule(1, <<"Outperforming sector peers">>)
           ELSE NoRule,
           IF sentiment >= 2 THEN Rule(2, <<"Strongly bullish news sentiment">>)
           ELSE IF sentiment = 1 THEN Rule(1, <<"Positive news sentiment">>)
           ELSE IF cat /\ sentiment = 0 THEN Rule(1, <<"News catalyst detected">>)
           ELSE IF sentiment <= -2 THEN Rule(-2, <<"Bearish news sentiment">>)
           ELSE IF sentiment = -1 THEN Rule(-1, <<"Slightly negative news">>)
           ELSE NoRule,
           IF uo THEN Rule(1, <<"Unusual options activity">>) ELSE NoRule,
           IF earn /\ reliable_gapper
               THEN Rule(1, <<"Earnings risk BUT historically gaps up big">>)
           ELSE IF earn THEN Rule(-3, <<"EARNINGS WITHIN 3 DAYS - high risk">>)
           ELSE NoRule,
           IF spy > 0 THEN Rule(spy, <<"Market bullish (SPY)">>)
           ELSE IF spy < 0 THEN Rule(spy, <<"Market bearish (SPY) - caution">>)
           ELSE Rule(spy, <<>>),
           IF sec > 0 THEN Rule(sec, <<"Sector strong">>)
           ELSE IF sec < 0 THEN Rule(sec, <<"Sector weak">>)
           ELSE Rule(sec, <<>>),
           IF flt = 2 THEN Rule(flt, <<"Low float - big move potential">>)
           ELSE IF flt = 1 THEN Rule(flt, <<"Moderate float">>)
           ELSE IF flt < 0 THEN Rule(flt, <<"High float">>)
           ELSE Rule(flt, <<>>),
           IF rs > 0 THEN Rule(rs, <<"Outperforming SPY">>)
           ELSE IF rs < 0 THEN Rule(rs, <<"Underperforming SPY">>)
           ELSE Rule(rs, <<>>),
           IF atr < 150 THEN Rule(-1, <<"Low volatility">>)
           ELSE IF atr >= 300 THEN Rule(0, <<"Good daily range">>)
           ELSE NoRule,
           IF last < 50000 THEN Rule(-2, <<"Price under $5">>)
           ELSE IF last > 5000000 THEN Rule(0, <<"High price - size accordingly">>)
           ELSE NoRule,
           IF rr # None
               THEN IF rr[1] >= 200 THEN Rule(1, <<"Good R/R">>)
                    ELSE IF rr[1] < 100 THEN Rule(-1, <<"Poor R/R">>)
                    ELSE NoRule
           ELSE NoRule,
           IF adj # 0
               THEN Rule(pts, <<IF pts > 0 THEN "ML boost" ELSE "ML caution">>)
           ELSE NoRule >>

\* the raw point total score_stock_v4 holds before it normalises
RawPoints(f, adj) ==
    LET rules == ScoreRules(f, adj)
    IN  SumSeq([i \in 1..Len(rules) |-> rules[i].pts])

\* round(min(10, max(0, (score / 26) * 10)), 1), in tenths
NormalizeUnclamped(raw) == PyRound(raw * 100, SCORE_DIVISOR)

\* the divisor of run_backtest's simplified policy used in place of 26
NormalizeBy12(raw) == PyRound(Min(100 * 12, Max(0, raw * 100)), 12)

Normalize(raw) ==
    PyRound(Min(100 * SCORE_DIVISOR, Max(0, raw * 100)), SCORE_DIVISOR)

ExclusionReason == "Dollar volume under $10M - excluded"

\* score_stock_v4 left by an exception: round(ml_adj * 2) of line 1147
\* raises ValueError on a nan adjustment
ScoreRaised == [score |-> -1, reasons |-> <<"ValueError">>]

score_stock_v4_nofloor(f, adj) ==
    LET rules == ScoreRules(f, adj)
    IN  IF adj = NAN_ADJUSTMENT THEN ScoreRaised
        ELSE [score   |-> Normalize(RawPoints(f, adj)),
              reasons |-> Flatten([i \in 1..Len(rules) |-> rules[i].why])]

score_stock_v4_noclamp(f, adj) ==
    LET rules == ScoreRules(f, adj)
    IN  IF f.dollar_vol < DOLLAR_VOL_FLOOR
            THEN [score |-> 0, reasons |-> <<ExclusionReason>>]
        ELSE IF adj = NAN_ADJUSTMENT THEN ScoreRaised
        ELSE [score   |-> NormalizeUnclamped(RawPoints(f, adj)),
              reasons |-> Flatten([i \in 1..Len(rules) |-> rules[i].why])]

\* score_stock_v4(features, ml_adj): the floor of line 1061 returns before
\* anything else is read; past it a nan adjustment is not 0 (line 1146) and
\* round(ml_adj * 2) raises (line 1147)
score_stock_v4(f, adj) ==
    LET rules == ScoreRules(f, adj)
    IN  IF f.dollar_vol < DOLLAR_VOL_FLOOR
            THEN [score |-> 0, reasons |-> <<ExclusionReason>>]
        ELSE IF adj = NAN_ADJUSTMENT THEN ScoreRaised
        ELSE [score   |-> Normalize(RawPoints(f, adj)),
              reasons |-> Flatten([i \in 1..Len(rules) |-> rules[i].why])]

\* run_scanner line 1019: "A" if score >= 8 else "B" if score >= 6 else "C"
Grade(score) == IF score >= 80 THEN "A" ELSE IF score >= 60 THEN "B" ELSE "C"

MIN_SCORE == 30

NoGrade == "-"

\* run_scanner lines 994-1020 for one symbol: score it, keep it when score
\* >= 3; when score_stock_v4 raises nothing is kept
ScorePick(f, adj) ==
    LET r == score_stock_v4(f, adj)
    IN  [score |-> r.score, reasons |-> r.reasons,
         kept  |-> r.score >= MIN_SCORE,
         grade |-> IF r.score >= MIN_SCORE THEN Grade(r.score) ELSE NoGrade]

(***************************************************************************)
(* Scoring specification: score_stock_v4 applied to bounded feature        *)
(* records.  A record is one of the base profiles with at most             *)
(* MaxOverrides fields replaced by a value of FeatureValues.               *)
(***************************************************************************)

MaxOverrides == 2

\* the scenario of the specification's section 8 (named fields only)
ScenarioFeatures ==
    [FeatureDefaults EXCEPT
        !.gap_pct = 660, !.rvol = 250, !.tech_score = 3, !.adx = 2800,
        !.dollar_vol = 50000000, !.last_close = 501000,
        !.earnings_risky = FALSE, !.sentiment_score = 0,
        !.unusual_options = FALSE, !.spy_modifier = 0, !.sector_score = 0,
        !.float_score = 1, !.rs_score = 1, !.pm_change = 100,
        !.rr_ratio = Some(220)]

\* every rule at its highest contribution
BestFeatures ==
    [gap_pct |-> 660, rvol |-> 350, atr_pct |-> 400, tech_score |-> 3,
     has_catalyst |-> TRUE, last_close |-> 501000, spy_modifier |-> 2,
     sector_score |-> 1, float_score |-> 2, earnings_risky |-> TRUE,
     rs_score |-> 2, pm_change |-> 300, rr_ratio |-> Some(220), adx |-> 3500,
     weekly_trend |-> 1, dollar_vol |-> 50000000, gap_fill_modifier |-> 1,
     unusual_options |-> TRUE, institutional_score |-> 4,
     short_squeeze_score |-> 2, sector_leader_score |-> 2, pm_vol_pct |-> 2500,
     sentiment_score |-> 2, gap_atr_ratio |-> 350,
     earnings_is_reliable_gapper |-> TRUE]

\* every rule at its lowest contribution
WorstFeatures ==
    [gap_pct |-> -500, rvol |-> 100, atr_pct |-> 0, tech_score |-> 0,
     has_catalyst |-> FALSE, last_close |-> 30000, spy_modifier |-> -2,
     sector_score |-> -1, float_score |-> -1, earnings_risky |-> TRUE,
     rs_score |-> -2, pm_change |-> -200, rr_ratio |-> Some(50), adx |-> 0,
     weekly_trend |-> -1, dollar_vol |-> 50000000, gap_fill_modifier |-> -1,
     unusual_options |-> FALSE, institutional_score |-> 0,
     short_squeeze_score |-> 0, sector_leader_score |-> 0, pm_vol_pct |-> 0,
     sentiment_score |-> -2, gap_atr_ratio |-> 0,
     earnings_is_reliable_gapper |-> FALSE]

FeatureValues ==
    [gap_pct |-> {-500, 0, 100, 660, 1000, 2000},
     rvol |-> {100, 150, 250, 350},
     atr_pct |-> {0, 200, 400},
     tech_score |-> {0, 1, 2, 3},
     has_catalyst |-> BOOLEAN,
     last_close |-> {30000, 501000, 6000000},
     spy_modifier |-> {-2, -1, 0, 1, 2},
     sector_score |-> {-1, 0, 1},
     float_score |-> {-1, 0, 1, 2},
     earnings_risky |-> BOOLEAN,
     rs_score |-> {-2, -1, 0, 1, 2},
     pm_change |-> {-200, 0, 100, 300},
     rr_ratio |-> {None, Some(50), Some(150), Some(220)},
     adx |-> {0, 2200, 2800, 3500},
     weekly_trend |-> {-1, 0, 1},
     dollar_vol |-> {2000000, 9999999, 10000000, 50000000},
     gap_fill_modifier |-> {-1, 0, 1},
     unusual_options |-> BOOLEAN,
     institutional_score |-> {0, 1, 2, 3, 4},
     short_squeeze_score |-> {0, 1, 2, 3},
     sector_leader_score |-> {0, 1, 2},
     pm_vol_pct |-> {0, 1500, 2500},
     sentiment_score |-> {-2, -1, 0, 1, 2},
     gap_atr_ratio |-> {0, 250, 350},
     earnings_is_reliable_gapper |-> BOOLEAN]

MlAdjValues == {-100, -75, -25, 0, 26, 75, 100}

\* the base profiles with the adjustment each is scored under
BaseInputs ==
    { [f |-> ScenarioFeatures, adj |-> 0],
      [f |-> BestFeatures, adj |-> 100],
      [f |-> WorstFeatures, adj |-> -100] }

FeatureKeys ==
    << "gap_pct", "rvol", "atr_pct", "tech_score", "has_catalyst", "last_close",
       "spy_modifier", "sector_score", "float_score", "earnings_risky",
       "rs_score", "pm_change", "rr_ratio", "adx", "weekly_trend", "dollar_vol",
       "gap_fill_modifier", "unusual_options", "institutional_score",
       "short_squeeze_score", "sector_leader_score", "pm_vol_pct",
       "sentiment_score", "gap_atr_ratio", "earnings_is_reliable_gapper" >>

\* the idx-th value of a finite set of values, in a fixed order
RECURSIVE Pick(_, _)
Pick(S, idx) ==
    LET x == CHOOSE y \in S : TRUE
    IN  IF idx = 1 THEN x ELSE Pick(S \ {x}, idx - 1)

\* an override replaces one field (key 0: the adjustment) by its idx-th value
Overrides ==
    {p \in [key : 0..Len(FeatureKeys), idx : 1..7] :
        p.idx <= (IF p.key = 0 THEN Cardinality(MlAdjValues)
                  ELSE Cardinality(FeatureValues[FeatureKeys[p.key]]))}

RECURSIVE ApplyOverrides(_, _)
ApplyOverrides(in, ovs) ==
    IF ovs = <<>> THEN in
    ELSE LET o == Head(ovs)
         IN  ApplyOverrides(
                 IF o.key = 0
                     THEN [in EXCEPT !.adj = Pick(MlAdjValues, o.idx)]
                 ELSE [in EXCEPT !.f[FeatureKeys[o.key]] =
                                     Pick(FeatureValues[FeatureKeys[o.key]], o.idx)],
                 Tail(ovs))

Ordered(ovs) == \A i \in 1..(Len(ovs) - 1) : ovs[i].key <= ovs[i + 1].key

NotScored == [score |-> -1, reasons |-> <<>>, kept |-> FALSE, grade |-> NoGrade]

(***************************************************************************)
(* Outcome history: HISTORY_FILE is a list of entries                      *)
(*   [date, picks], a pick being                                           *)
(*   [symbol, score, grade, last_close, outcome, outcome_pct];             *)
(* outcome is "null" (Python None), "win" or "loss"; outcome_pct is None   *)
(* or Some(pct) with pct in hundredths of a percent.                       *)
(***************************************************************************)

\* d.get(key, default)
DictGet(d, key, default) == IF key \in DOMAIN d THEN d[key] ELSE default

HISTORY_KEEP == 90

Pending == "null"

\* h[-n:]
LastN(h, n) == SubSeq(h, Max(1, Len(h) - n + 1), Len(h))

\* ((close - last_close) / last_close) * 100 as the floats compute it
OutcomePctFloat(close, last_close) ==
    FMul(FDiv(FSub(FPrice(close), FPrice(last_close)), FPrice(last_close)), FOfRatio(100, 1))

\* round(((close - last_close) / last_close) * 100, 2), in hundredths.  The
\* float differs from the exact quotient by less than any distance the
\* quotient can have from a half hundredth, so the exact quotient decides the
\* rounding unless it lies on a half hundredth, where the float does
OutcomePct(close, last_close) ==
    IF /\ Abs(close - last_close) < 200000
       /\ ~IsTie((close - last_close) * 10000, last_close)
        THEN PyRound((close - last_close) * 10000, last_close)
    ELSE FRound2(OutcomePctFloat(close, last_close))

\* update_outcomes, lines 804-812, for one pick whatever its outcome
ResolvePickUnguarded(pick, fetch) ==
    IF fetch[pick.symbol] # None /\ pick.last_close # 0
        THEN LET pct == OutcomePct(fetch[pick.symbol][1], pick.last_close)
             IN  [pick EXCEPT !.outcome = IF pct > 100 THEN "win" ELSE "loss",
                              !.outcome_pct = Some(pct)]
    ELSE pick

\* update_outcomes, lines 804-812: a pick with outcome None is resolved when
\* safe_fetch returns a non-empty frame (fetch[symbol] = Some(close)); a failed
\* or empty fetch, or a zero last_close (ZeroDivisionError), leaves it as it is
ResolvePick(pick, fetch) ==
    IF pick.outcome = Pending THEN ResolvePickUnguarded(pick, fetch) ELSE pick

\* update_outcomes resolving every pick of yesterday's entry, pending or not
update_outcomes_noguard(h, now, fetch) ==
    [i \in 1..Len(h) |->
        IF h[i].date = now - 1
            THEN [h[i] EXCEPT !.picks =
                     [j \in 1..Len(h[i].picks) |-> ResolvePickUnguarded(h[i].picks[j], fetch)]]
        ELSE h[i]]

\* update_outcomes: the history it saves, given the loaded history h, the
\* date now and what the gateway returns per symbol
update_outcomes(h, now, fetch) ==
    [i \in 1..Len(h) |->
        IF h[i].date = now - 1
            THEN [h[i] EXCEPT !.picks =
                     [j \in 1..Len(h[i].picks) |-> ResolvePick(h[i].picks[j], fetch)]]
        ELSE h[i]]

\* the entry save_scan_to_history builds from the run's results
HistoryEntry(now, results) ==
    [date  |-> now,
     picks |-> [j \in 1..Len(results) |->
                  [symbol |-> results[j].symbol, score |-> results[j].score,
                   grade |-> results[j].grade, last_close |-> results[j].last_close,
                   features |-> DictGet(results[j], "features", <<>>),
                   outcome |-> Pending, outcome_pct |-> None]]]

\* [x for x in h if x["date"] != d]
DropDate(h, d) == SelectSeq(h, LAMBDA e : e.date # d)

\* save_scan_to_history appending without dropping the date's earlier entry
save_scan_to_history_append(h, now, results) ==
    LastN(Append(h, HistoryEntry(now, results)), HISTORY_KEEP)

\* save_scan_to_history keeping the first 90 entries, h[:90]
save_scan_to_history_keepfirst(h, now, results) ==
    SubSeq(Append(DropDate(h, now), HistoryEntry(now, results)), 1,
           Min(HISTORY_KEEP, Len(DropDate(h, now)) + 1))

\* save_scan_to_history: the history it saves, given the loaded history h
save_scan_to_history(h, now, results) ==
    LastN(Append(DropDate(h, now), HistoryEntry(now, results)), HISTORY_KEEP)

(***************************************************************************)
(* History specification: calls of update_outcomes and                     *)
(* save_scan_to_history in any order while the calendar moves forward; a   *)
(* call of update_outcomes waits for the gateway between its load and its  *)
(* save, and other calls run meanwhile.                                    *)
(***************************************************************************)

MaxDay == 2

Symbols == {"AAA", "BBB"}

\* the symbols a shortlist handed to run_morning_scan can hold
MorningSymbols == Symbols \cup {"CCC"}

\* the shortlist entries a scan can hand to save_scan_to_history
PickAAA ==
    [symbol |-> "AAA", score |-> 85, grade |-> "A", last_close |-> 100000,
     has_catalyst |-> FALSE, features |-> [rvol |-> 350, has_catalyst |-> FALSE]]

PickBBB ==
    [symbol |-> "BBB", score |-> 42, grade |-> "C", last_close |-> 100000,
     has_catalyst |-> TRUE, features |-> [rvol |-> 250, has_catalyst |-> TRUE]]

ResultLists == { <<>>, <<PickAAA>>, <<PickBBB>>, <<PickAAA, PickBBB>> }

\* a shortlist of two picks of the same grade, neither with a catalyst
TwinList == << PickAAA, [PickBBB EXCEPT !.score = 80, !.grade = "A", !.has_catalyst = FALSE] >>

\* a score run_scanner grades g (line 1019)
ScoreOfGrade(g) == IF g = "A" THEN 85 ELSE IF g = "B" THEN 65 ELSE 42

\* the pick of a symbol with a grade and with or without a catalyst
PickOf(symbol, g, catalyst) ==
    [symbol |-> symbol, score |-> ScoreOfGrade(g), grade |-> g, last_close |-> 100000,
     has_catalyst |-> catalyst, features |-> [rvol |-> 250, has_catalyst |-> catalyst]]

\* the shortlists run_morning_scan is run on for its order (a shortlist is
\* sorted by score): two picks of different or equal grades, each with or
\* without a catalyst, and three picks graded A, B and C of which the last
\* has a catalyst
OrderLists ==
    { << PickOf("AAA", g[1], c1), PickOf("BBB", g[2], c2) >> :
        g \in { <<"A", "A">>, <<"A", "B">>, <<"A", "C">>, <<"B", "C">> },
        c1 \in BOOLEAN, c2 \in BOOLEAN }
    \cup { << PickOf("AAA", "A", FALSE), PickOf("BBB", "B", FALSE),
              PickOf("CCC", "C", TRUE) >> }

\* what safe_fetch yields for a symbol: nothing, or a frame with this last close
\* (102000 is +2%, 101004 is +1.004%, 99000 is -1% of a last_close of 100000)
FetchResults == { None, Some(102000), Some(101004), Some(99000) }

\* what the gateway returns per symbol in one call of update_outcomes: every
\* result for AAA, a failure or the +2% close for BBB
FetchMaps ==
    { fetch \in [Symbols -> FetchResults] : fetch["BBB"] \in {None, Some(102000)} }

\* the shortlists the history specification saves, and what the gateway
\* returns to its calls of update_outcomes: a failure, or a close for AAA of
\* +2% (a win) or of +1.004% (rounded to 1.0, a loss)
HistResults == { <<PickAAA>> }

HistFetchMaps ==
    { fetch \in [Symbols -> {None, Some(102000), Some(101004)}] : fetch["BBB"] = None }

(***************************************************************************)
(* Adjustment model: train_ml_model and get_ml_adjustment.  The weights    *)
(* file holds None (absent or unreadable) or Some(document).  In a         *)
(* document a weight is in tenths, a scaler mean and a scaler scale are in *)
(* the unit of their feature; a logit is in tenths, an adjustment in       *)
(* hundredths.  The numerical fit (StandardScaler + LogisticRegression) is *)
(* not computed: the document a successful fit yields is any of FitDocs.   *)
(***************************************************************************)

MIN_TRAIN_PICKS == 20

TRAIN_KEYS ==
    << "gap_pct", "rvol", "atr_pct", "tech_score", "adx", "weekly_trend",
       "float_score", "rs_score", "pm_change", "spy_modifier", "sector_score",
       "rr_ratio", "short_squeeze_score", "gap_atr_ratio", "institutional_score" >>

\* p.get("outcome") and p.get("features")
Trainable(p) == p.outcome # Pending /\ p.features # <<>>

\* picks = [p for e in history for p in e["picks"] if ...]
TrainingPicks(history) ==
    SelectSeq(Flatten([i \in 1..Len(history) |-> history[i].picks]), Trainable)

\* LogisticRegression.fit rejects a sample with a single class
SingleClass(picks) ==
    \/ \A i \in 1..Len(picks) : picks[i].outcome = "win"
    \/ \A i \in 1..Len(picks) : picks[i].outcome # "win"

\* train_ml_model with no minimum number of picks
train_ml_model_nomin(available, history, fit) ==
    LET picks == TrainingPicks(history)
    IN  IF ~available THEN [write |-> None, ret |-> "None", picks |-> -1]
        ELSE IF SingleClass(picks)
            THEN [write |-> None, ret |-> "None", picks |-> Len(picks)]
        ELSE [write |-> Some([fit EXCEPT !.trained_on = Len(picks)]),
              ret |-> "data", picks |-> Len(picks)]

\* train_ml_model: what it writes to the weights file (None: nothing), what it
\* returns, and the number of picks it counted (-1: it did not count)
train_ml_model(available, history, fit) ==
    LET picks == TrainingPicks(history)
    IN  IF ~available THEN [write |-> None, ret |-> "None", picks |-> -1]
        ELSE IF Len(picks) < MIN_TRAIN_PICKS
            THEN [write |-> None, ret |-> "None", picks |-> Len(picks)]
        ELSE IF SingleClass(picks)
            THEN [write |-> None, ret |-> "None", picks |-> Len(picks)]
        ELSE [write |-> Some([fit EXCEPT !.trained_on = Len(picks)]),
              ret |-> "data", picks |-> Len(picks)]

\* the features the model keeps in hundredths
HundredthKeys ==
    {"gap_pct", "rvol", "atr_pct", "adx", "pm_change", "pm_vol_pct", "rr_ratio",
     "gap_atr_ratio"}

BoolKeys ==
    {"has_catalyst", "earnings_risky", "unusual_options", "earnings_is_reliable_gapper"}

\* whether features.get(k, 0) or 0 is nan (nan is not falsy: `or 0` keeps it)
NanFeature(f, k) ==
    k \in DOMAIN f /\ k \notin BoolKeys /\ k # "rr_ratio" /\ f[k] = NAN_FEATURE

\* features.get(k, 0) or 0 as an element of the float64 array row (line 723),
\* for a value that is not nan
FeatureFloat(f, k) ==
    IF k \notin DOMAIN f THEN FZero
    ELSE IF k = "rr_ratio" THEN (IF f[k] = None THEN FZero ELSE FHundredths(f[k][1]))
    ELSE IF k \in BoolKeys THEN (IF f[k] THEN FOfRatio(1, 1) ELSE FZero)
    ELSE IF k = "last_close" THEN FPrice(f[k])
    ELSE IF k \in HundredthKeys THEN FHundredths(f[k])
    ELSE FOfRatio(f[k], 1)

\* numpy broadcasting of two one-dimensional arrays of lengths a and b: the
\* lengths are equal or one of them is 1
Broadcasts(a, b) == a = b \/ a = 1 \/ b = 1

\* the length of the result of a broadcast operation
BroadcastLen(a, b) == IF a = 1 THEN b ELSE a

\* the length of scaled = (row - mean) / scale (line 724)
ScaledLen(ml) ==
    BroadcastLen(BroadcastLen(Len(ml.feature_keys), Len(ml.scaler_mean)),
                 Len(ml.scaler_scale))

\* element i of an array in a broadcast operation: an array of length 1 is
\* stretched
Stretched(arr, i) == IF Len(arr) = 1 THEN arr[1] ELSE arr[i]

\* row[i] - mean[i] (line 724), the mean being kept in hundredths
Centred(ml, f, i) ==
    FSub(FeatureFloat(f, ml.feature_keys[i]), FHundredths(Stretched(ml.scaler_mean, i)))

\* scaled[i] * w[keys[i]] (lines 724-725) for a scale that is not 0, the
\* scale being kept in hundredths and the weight in tenths.  With a weight
\* of 0 the product is 0.0 or -0.0, which adds nothing to the sum
LogitTerm(ml, f, i) ==
    IF ml.weights[ml.feature_keys[i]] = 0 THEN FZero
    ELSE FMul(FDiv(Centred(ml, f, i), FHundredths(Stretched(ml.scaler_scale, i))),
              FOfRatio(ml.weights[ml.feature_keys[i]], 10))

\* lines 723-725: sum(scaled[i] * w[keys[i]] for i in range(len(keys))), the
\* products added one by one in the order of the keys
Logit(ml, f) ==
    FSumFrom(FZero, [i \in 1..Len(ml.feature_keys) |-> LogitTerm(ml, f, i)])

\* scaled[i] * w[keys[i]] for a scale of 0, where numpy divides without
\* raising: 1 for inf, -1 for -inf, 0 for nan (0 / 0, or inf * 0)
InfiniteTerm(ml, f, i) ==
    IF ml.weights[ml.feature_keys[i]] = 0 THEN 0
    ELSE FCmp(Centred(ml, f, i), FZero)
            * (IF ml.weights[ml.feature_keys[i]] < 0 THEN -1 ELSE 1)

\* the keys whose scale is 0
ZeroScaled(ml) ==
    {i \in 1..Len(ml.feature_keys) : Stretched(ml.scaler_scale, i) = 0}

\* lines 725-727 with a scale of 0: the sum is inf, -inf or nan, math.exp
\* gives 0.0 or inf or nan, and round(nan, 2) is nan
AdjustmentAtInfinity(terms) ==
    IF 0 \in terms \/ {-1, 1} \subseteq terms THEN NAN_ADJUSTMENT
    ELSE IF 1 \in terms THEN 100 ELSE -100

\* 10^12 in limbs
TenTo12 == BigMulInt(BigMulInt(BigMulInt(<<1>>, 10000, 0), 10000, 0), 10000, 0)

\* the integer part of |a| * 10^12
FloorTo12(a) ==
    IF a.e >= 0 THEN BigShl(BigMul(a.m, TenTo12), a.e)
    ELSE BigShr(BigMul(a.m, TenTo12), -a.e)

\* qr the quotient and remainder of the integer part of |a| * 10^12 by 10^4:
\* that integer part is hi.q * 10^8 + hi.r * 10^4 + lo
SplitDigits(qr) == [hi |-> BigDivInt(qr.q, 10000), lo |-> qr.r]

\* the logits, cut after 8 decimals and in 1/100000000, from which
\* round((prob - 0.5) * 2, 2) is 0.01, 0.02, ..., 1.00 in absolute value:
\* 2 * atanh(0.005), 2 * atanh(0.015), ..., 2 * atanh(0.995).  No float
\* whose decimal expansion is short lies within 10^-10 of one of them, so
\* the rounding errors of math.exp and of the division decide nothing
ADJ_THRESHOLDS ==
    << 1000008, 3000225, 5001042, 7002860, 9006082, 11011111, 13018354,
       15028220, 17041120, 19057469, 21077689, 23102203, 25131442, 27165842,
       29205844, 31251899, 33304464, 35364004, 37430994, 39505918, 41589273,
       43681563, 45783309, 47895041, 50017305, 52150663, 54295690, 56452980,
       58623145, 60806817, 63004647, 65217310, 67445504, 69689953, 71951405,
       74230641, 76528470, 78845736, 81183315, 83542123, 85923117, 88327296,
       90755705, 93209439, 95689648, 98197538, 100734377, 103301500,
       105900315, 108532305, 111199041, 113902182, 116643488, 119424825,
       122248177, 125115654, 128029507, 130992138, 134006116, 137074194,
       140199327, 143384690, 146633706, 149950072, 153337787, 156801187,
       160344987, 163974326, 167694820, 171512624, 175434503, 179467917,
       183621123, 187903286, 192324628, 196896592, 201632045, 206545529,
       211653566, 216975032, 222531631, 228348492, 234454929, 240885428,
       247680943, 254890623, 262574155, 270805020, 279675097, 289301376,
       299836039, 311482164, 324519313, 339347533, 356568407, 377148298,
       402789946, 436944785, 488532399, 598896141 >>

\* the 4 decimals that follow
ADJ_THRESHOLDS_LOW ==
    << 3334, 303, 574, 4360, 3918, 8416, 8854, 3049, 699, 8550, 5676, 8886,
       8280, 2983, 7051, 5598, 1148, 243, 328, 6947, 1270, 7992, 3625, 5235,
       9649, 3186, 1948, 2737, 4635, 1321, 4192, 6349, 7547, 178, 6400, 6518,
       8726, 364, 814, 6224, 6222, 2845, 1905, 7047, 6800, 4942, 4555, 6182,
       573, 6549, 4614, 7005, 5006, 4433, 380, 2447, 1885, 2335, 6080, 8112,
       662, 1368, 8793, 9748, 3724, 779, 589, 1929, 3960, 3207, 3377, 9331,
       1798, 6394, 9478, 5355, 5223, 9705, 6086, 1783, 2203, 1620, 2093,
       6588, 9555, 2620, 3639, 1102, 1518, 7359, 5960, 5124, 3185, 5568, 820,
       2649, 2813, 2467, 2019, 6889 >>

\* round((prob - 0.5) * 2, 2) in hundredths for a logit of absolute value
\* below 6 whose first 12 decimals are hi (8 of them) and lo
AdjustmentAt(hi, lo) ==
    Cardinality({k \in 1..Len(ADJ_THRESHOLDS) :
                    \/ ADJ_THRESHOLDS[k] < hi
                    \/ ADJ_THRESHOLDS[k] = hi /\ ADJ_THRESHOLDS_LOW[k] < lo})

\* math.exp(x) raises OverflowError from the float above 709.782712893384
\* on, 709.78271289338408...: whether the logit whose absolute value has
\* these digits is at or above it
ExpOverflows(d) ==
    \/ BigToInt(d.hi.q) > 7097827
    \/ BigToInt(d.hi.q) = 7097827 /\ d.hi.r > 1289
    \/ BigToInt(d.hi.q) = 7097827 /\ d.hi.r = 1289 /\ d.lo >= 3384

\* prob = 1 / (1 + math.exp(-logit)); round((prob - 0.5) * 2, 2) (lines
\* 726-727), in hundredths; the except clause turns the OverflowError of
\* math.exp into 0 (line 728)
AdjustmentOf(logit) ==
    IF logit.m = <<>> THEN 0
    ELSE IF FCmp(logit, FOfRatio(-710, 1)) <= 0 THEN 0
    ELSE IF FCmp(logit, FOfRatio(-709, 1)) <= 0
        THEN (IF ExpOverflows(SplitDigits(BigDivInt(FloorTo12(logit), 10000))) THEN 0
              ELSE -100)
    ELSE IF FCmpAbs(logit, FOfRatio(6, 1)) >= 0 THEN logit.s * 100
    ELSE logit.s * AdjustmentAt(BigToInt(BigDivInt(FloorTo12(logit), 10000).q),
                                BigDivInt(FloorTo12(logit), 10000).r)

\* a document json.load accepts, with every key get_ml_adjustment reads,
\* arrays numpy can broadcast (line 724) and an element of scaled and a
\* weight for every key (line 725)
WellFormed(ml) ==
    /\ {"feature_keys", "weights", "scaler_mean", "scaler_scale"} \subseteq DOMAIN ml
    /\ Broadcasts(Len(ml.feature_keys), Len(ml.scaler_mean))
    /\ Broadcasts(BroadcastLen(Len(ml.feature_keys), Len(ml.scaler_mean)),
                  Len(ml.scaler_scale))
    /\ Len(ml.feature_keys) <= ScaledLen(ml)
    /\ \A i \in 1..Len(ml.feature_keys) : ml.feature_keys[i] \in DOMAIN ml.weights

\* get_ml_adjustment(features), given the content of the weights file; `not
\* ml` holds for an absent file and for an empty document.  A nan in row
\* makes its element of scaled, the sum, math.exp and the rounded result nan,
\* whatever the weights (nan * 0.0 is nan); no exception is raised
get_ml_adjustment(ml_doc, available, f) ==
    IF ml_doc = None \/ ~available THEN 0
    ELSE IF DOMAIN ml_doc[1] = {} THEN 0
    ELSE IF ~WellFormed(ml_doc[1]) THEN 0
    ELSE IF \E i \in 1..Len(ml_doc[1].feature_keys) : NanFeature(f, ml_doc[1].feature_keys[i])
        THEN NAN_ADJUSTMENT
    ELSE IF ZeroScaled(ml_doc[1]) # {}
        THEN AdjustmentAtInfinity({InfiniteTerm(ml_doc[1], f, i) : i \in ZeroScaled(ml_doc[1])})
    ELSE AdjustmentOf(Logit(ml_doc[1], f))

(***************************************************************************)
(* Adjustment model: inputs                                                *)
(***************************************************************************)

MaxTrainEntries == 2

Repeat(x, n) == [i \in 1..n |-> x]

\* a history pick as save_scan_to_history and update_outcomes leave it
TrainPick(outcome, feats) ==
    [symbol |-> "AAA", score |-> 42, grade |-> "C", last_close |-> 100000,
     features |-> feats, outcome |-> outcome,
     outcome_pct |-> IF outcome = Pending THEN None
                     ELSE IF outcome = "win" THEN Some(200) ELSE Some(-100)]

\* the picks of one history entry: wins and losses with features, pending
\* picks, and resolved picks whose features are the empty dict
EntryShapes ==
    { [w |-> 0, l |-> 0, p |-> 0, b |-> 0], [w |-> 5, l |-> 5, p |-> 0, b |-> 0],
      [w |-> 5, l |-> 4, p |-> 3, b |-> 3], [w |-> 10, l |-> 0, p |-> 0, b |-> 0],
      [w |-> 5, l |-> 5, p |-> 3, b |-> 2] }

TrainEntry(date, shape) ==
    [date  |-> date,
     picks |-> Repeat(TrainPick("win", [rvol |-> 350]), shape.w)
                 \o Repeat(TrainPick("loss", [rvol |-> 100]), shape.l)
                 \o Repeat(TrainPick(Pending, [rvol |-> 250]), shape.p)
                 \o Repeat(TrainPick("loss", <<>>), shape.b)]

TrainHistories ==
    { [i \in 1..MaxTrainEntries |-> TrainEntry(i - 1, shapes[i])] :
        shapes \in [1..MaxTrainEntries -> EntryShapes] }

\* a document with every weight 0, every mean 0 and every scale 1.0 (weights
\* are kept in tenths, means and scales in hundredths)
DocBase ==
    [feature_keys |-> TRAIN_KEYS,
     weights      |-> [k \in {TRAIN_KEYS[i] : i \in 1..Len(TRAIN_KEYS)} |-> 0],
     scaler_mean  |-> [i \in 1..Len(TRAIN_KEYS) |-> 0],
     scaler_scale |-> [i \in 1..Len(TRAIN_KEYS) |-> 100],
     trained_on   |-> 20]

\* gap_pct: weight 1.0, mean 2.0, scale 1.0
DocGap ==
    [DocBase EXCEPT !.weights["gap_pct"] = 10, !.scaler_mean[1] = 200]

\* tech_score: weight 0.5, mean 1.0, scale 1.0; rr_ratio: weight 1.0, scale 1.0
DocTech ==
    [DocBase EXCEPT !.weights["tech_score"] = 5, !.scaler_mean[4] = 100,
                    !.weights["rr_ratio"] = 10]

\* rvol: weight -2.0, mean 1.0, scale 0.5
DocRvol ==
    [DocBase EXCEPT !.weights["rvol"] = -20, !.scaler_mean[2] = 100,
                    !.scaler_scale[2] = 50]

\* adx: weight -2000.0, scale 1.0 (math.exp overflows on its logits)
DocHuge ==
    [DocBase EXCEPT !.weights["adx"] = -20000]

\* a document without its scaler
DocBroken == [feature_keys |-> TRAIN_KEYS, weights |-> DocBase.weights]

\* a document whose scale of gap_pct is 0 (numpy divides by it without
\* raising), with a weight of 0 and with a weight of 1.0
DocZeroScale == [DocBase EXCEPT !.scaler_scale[1] = 0]

DocGapZeroScale == [DocGap EXCEPT !.scaler_scale[1] = 0]

\* the documents train_ml_model writes in the model
FitDocs == {DocGap, DocTech}

\* what the weights file can hold: nothing, a document train_ml_model wrote,
\* or any other JSON document put in its place
MlFiles ==
    {None} \cup {Some(d) : d \in {DocGap, DocTech, DocRvol, DocHuge, DocBroken,
                                  DocZeroScale, DocGapZeroScale}}

\* the feature records get_ml_adjustment is given; the last is the record
\* of a symbol whose last bar has no prices
AdjustRows ==
    { FeatureDefaults, ScenarioFeatures, BestFeatures, WorstFeatures,
      [ScenarioFeatures EXCEPT !.rr_ratio = None],
      [ScenarioFeatures EXCEPT !.dollar_vol = 7000000],
      [ScenarioFeatures EXCEPT !.gap_pct = NAN_FEATURE] }

(***************************************************************************)
(* Evening scan: run_scanner.  The watchlist is 1..WatchlistLen, a symbol  *)
(* being named by its position.  scan.market is what the market-data       *)
(* gateway holds for each symbol during the run, scan.seen what the loop   *)
(* did with each symbol it started on, scan.results the local results.     *)
(***************************************************************************)

WatchlistLen == 17

MaxDeviations == 1

MIN_BARS == 10

SHORTLIST_MAX == 15

GAP_MIN_TOTAL == 5

DEFAULT_WATCHLIST == [i \in 1..WatchlistLen |-> i]

\* get_gap_fill_risk(symbol, gap_pct), given the content of the gap-history
\* file: fr and cr are compared with 0.7 as filled * 10 > 7 * total
get_gap_fill_risk(gaps, symbol, gap_pct) ==
    LET h     == DictGet(gaps, symbol, [total |-> 0, filled |-> 0, continued |-> 0])
        total == h.total
    IN  IF total < GAP_MIN_TOTAL THEN [prob |-> None, mod |-> 0]
        ELSE IF h.continued * 10 > 7 * total /\ gap_pct > 0 /\ gap_pct # NAN_FEATURE
            THEN [prob |-> Some(<<h.filled, total>>), mod |-> 1]
        ELSE IF h.filled * 10 > 7 * total /\ gap_pct > 0 /\ gap_pct # NAN_FEATURE
            THEN [prob |-> Some(<<h.filled, total>>), mod |-> -1]
        ELSE [prob |-> Some(<<h.filled, total>>), mod |-> 0]

\* a record scoring between the scenario and the best record
MidFeatures ==
    [ScenarioFeatures EXCEPT !.rvol = 350, !.weekly_trend = 1, !.adx = 3500,
                             !.institutional_score = 4, !.pm_change = 300]

\* what the gateway holds for a symbol, by the name of its case: whether
\* safe_fetch returns a ticker and a frame, how many bars the frame has,
\* whether feature extraction raises, and the features extracted otherwise
MarketData(case) ==
    [fetched |-> case # "no_data",
     bars    |-> IF case = "few_bars" THEN MIN_BARS - 1 ELSE 60,
     raises  |-> case = "raise",
     f       |-> IF case = "best" THEN BestFeatures
                 ELSE IF case = "mid" THEN MidFeatures
                 ELSE IF case = "worst" THEN WorstFeatures
                 ELSE IF case = "best7m" THEN [BestFeatures EXCEPT !.dollar_vol = 7000000]
                 ELSE IF case = "best2m" THEN [BestFeatures EXCEPT !.dollar_vol = 2000000]
                 ELSE ScenarioFeatures]

\* one more iteration of the loop is over: continue
Continue(sc, what, score) ==
    [sc EXCEPT !.i = sc.i + 1,
               !.seen = Append(sc.seen, [symbol |-> DEFAULT_WATCHLIST[sc.i],
                                         what |-> what, score |-> score])]

\* except Exception as e: print(...); continue (lines 1021-1022)
OnSymbolFailure(sc) == Continue(sc, "failed", -1)

\* round(last, 2) (line 999) of a close kept in 1/10000 of a dollar; on a
\* half cent the float of the close decides
RoundedClose(last) ==
    IF ~IsTie(last, 100) THEN PyRound(last, 100) * 100
    ELSE FRound2(FPrice(last)) * 100

\* the dict appended to results (lines 998-1020)
ResultRecord(sym, f, ml, sp) ==
    [symbol |-> sym, score |-> sp.score, grade |-> sp.grade,
     last_close |-> RoundedClose(f.last_close),
     has_catalyst |-> f.has_catalyst, ml_adjustment |-> ml, features |-> f]

\* the body of the loop for the symbol at position sc.i (lines 942-1022);
\* an exception of score_stock_v4 is caught like one of feature extraction
ScanOneSymbol(sc, gaps, ml_doc, available) ==
    LET sym == DEFAULT_WATCHLIST[sc.i]
        d   == MarketData(sc.market[sc.i])
    IN  IF ~d.fetched \/ d.bars < MIN_BARS THEN Continue(sc, "skipped", -1)
        ELSE IF d.raises THEN OnSymbolFailure(sc)
        ELSE IF d.f.dollar_vol < DOLLAR_VOL_SKIP THEN Continue(sc, "skipped", -1)
        ELSE LET f  == [d.f EXCEPT !.gap_fill_modifier =
                                       get_gap_fill_risk(gaps, sym, d.f.gap_pct).mod]
                 ml == get_ml_adjustment(ml_doc, available, f)
                 sp == ScorePick(f, ml)
             IN  IF sp.reasons = ScoreRaised.reasons THEN OnSymbolFailure(sc)
                 ELSE IF sp.kept
                     THEN [Continue(sc, "scored", sp.score) EXCEPT
                              !.results = Append(sc.results, ResultRecord(sym, f, ml, sp))]
                 ELSE Continue(sc, "scored", sp.score)

\* the place of q[i] after results.sort(key=score, reverse=True): behind
\* every element with a higher score and, the sort being stable, behind the
\* elements of equal score that stood before it
RankByScore(q, i) ==
    1 + Cardinality({j \in 1..Len(q) :
                        \/ q[j].score > q[i].score
                        \/ (q[j].score = q[i].score /\ j < i)})

SortByScore(q) ==
    [r \in 1..Len(q) |-> q[CHOOSE i \in 1..Len(q) : RankByScore(q, i) = r]]

\* results[:15] without the sort before it
ShortlistUnsorted(results) == SubSeq(results, 1, Min(Len(results), SHORTLIST_MAX))

\* results.sort(...); results = results[:15] (line 1024)
Shortlist(results) ==
    SubSeq(SortByScore(results), 1, Min(Len(results), SHORTLIST_MAX))

\* the cases a symbol can deviate to from the market's base pattern
DeviationCases == {"no_data", "few_bars", "raise", "worst", "best7m", "best2m"}

\* the base pattern: scenario, best, mid, scenario, ...
BaseMarket ==
    [i \in 1..WatchlistLen |->
        IF i % 3 = 1 THEN "scenario" ELSE IF i % 3 = 2 THEN "best" ELSE "mid"]

\* the positions a deviation is tried at: none (0), the first two symbols,
\* one in the middle and the last two
DeviationPositions == {0, 1, 2, 9, WatchlistLen - 1, WatchlistLen}

Deviations == [pos : DeviationPositions, case : DeviationCases]

RECURSIVE Deviate(_, _)
Deviate(market, devs) ==
    IF devs = <<>> THEN market
    ELSE Deviate(IF Head(devs).pos = 0 THEN market
                 ELSE [market EXCEPT ![Head(devs).pos] = Head(devs).case],
                 Tail(devs))

\* deviations in watchlist order, position 0 (no deviation) with one case only
OrderedDeviations(devs) ==
    /\ \A i \in 1..Len(devs) : devs[i].pos = 0 => devs[i].case = "no_data"
    /\ \A i \in 1..(Len(devs) - 1) :
          devs[i].pos < devs[i + 1].pos \/ devs[i + 1].pos = 0

Markets ==
    { Deviate(BaseMarket, devs) :
        devs \in {d \in [1..MaxDeviations -> Deviations] : OrderedDeviations(d)} }

\* gap-history files: absent, symbol 2 mostly continuing, symbol 2 mostly filling
GapFiles ==
    { <<>>,
      2 :> [total |-> 6, filled |-> 1, continued |-> 5],
      2 :> [total |-> 6, filled |-> 5, continued |-> 1] }

(***************************************************************************)
(* Persisted artifacts: save_json and load_json.  The data handed to       *)
(* save_json is a list of items; json.dump writes it item by item.  A file *)
(* is the items written to it and whether the closing bracket was written. *)
(***************************************************************************)

MaxItems == 2

\* "a" and "b" are values json.dump encodes; "x" is one it cannot encode and
\* make_serializable leaves as it is (a set, an array, a timestamp)
Items == {"a", "b", "x"}

Serializable(v) == v # "x"

Outputs == UNION {[1..n -> Items] : n \in 0..MaxItems}

\* "open": open(fp, "w") raises OSError; "write": f.write raises OSError
\* (the device is full) after some items
Faults == {"none", "open", "write"}

\* the position of the first item json.dump cannot encode, Len + 1 if none
FirstBad(data) ==
    IF \A i \in 1..Len(data) : Serializable(data[i]) THEN Len(data) + 1
    ELSE CHOOSE i \in 1..Len(data) :
            /\ ~Serializable(data[i])
            /\ \A j \in 1..(i - 1) : Serializable(data[j])

\* save_json(fp, data) on a file whose content is before: open(fp, "w")
\* empties the file, json.dump then writes item after item until it is done
\* or an exception ends it; the except clause logs and returns
save_json(before, data, fault, cut) ==
    IF fault = "open" THEN [disk |-> before, error |-> TRUE]
    ELSE LET bad     == FirstBad(data)
             written == IF fault = "write" THEN Min(cut, bad - 1) ELSE bad - 1
         IN  IF fault = "none" /\ bad > Len(data)
                 THEN [disk |-> Some([text |-> data, closed |-> TRUE]), error |-> FALSE]
             ELSE [disk  |-> Some([text |-> SubSeq(data, 1, written), closed |-> FALSE]),
                   error |-> TRUE]

\* load_json(fp, default): the parsed file when it exists and parses, else
\* default, or {} when default is None
load_json(file, default) ==
    IF file # None /\ file[1].closed
        THEN [from |-> "file", type |-> "list", value |-> file[1].text]
    ELSE IF default = None THEN [from |-> "default", type |-> "dict", value |-> <<>>]
    ELSE [from |-> "default", type |-> "list", value |-> default[1]]

(***************************************************************************)
(* Trade log: trade_log.json is written by scanner.log_trade and           *)
(* update_trade_outcome as a list of trade records and by the app's POST   *)
(* /api/trade-log handler as a mapping keyed by date_symbol.  The file is  *)
(* absent (None), a list or a dict.  Of a trade record the id (the symbol  *)
(* and the second of the clock), the entry price and the exit price (in    *)
(* cents, zero or more) and the outcome are kept.                          *)
(***************************************************************************)

ListLog(trades) == Some([type |-> "list", trades |-> trades])

DictLog(keys) == Some([type |-> "dict", keys |-> keys])

\* line 431: trades[-500:]
TRADE_LOG_KEEP == 500

\* lines 424-429: the trade log_trade appends, logged at the second at
OpenTrade(symbol, at, entry_price) ==
    [id |-> <<symbol, at>>, price |-> entry_price, exit_price |-> None, outcome |-> None]

\* lines 441-443: pnl = ((exit_price - price) / price) * 100; pnl > 0.5,
\* decided by the exact change unless that is 0.5 exactly, where the floats
\* decide
TradeWon(price, exit_price) ==
    IF (exit_price - price) * 200 # price THEN (exit_price - price) * 200 > price
    ELSE FCmp(PercentChange(exit_price, price), FOfRatio(1, 2)) > 0

\* lines 439-443: the open trade t after update_trade_outcome found it; the
\* exit price is None or Some of a price, and with a price or an exit price
\* of zero (or an exit price of None) there is no outcome
ClosedTrade(t, exit_price) ==
    IF t.price # 0 /\ exit_price # None /\ exit_price # Some(0)
        THEN [t EXCEPT !.exit_price = exit_price,
                       !.outcome = Some(IF TradeWon(t.price, exit_price[1])
                                            THEN "win" ELSE "loss")]
    ELSE [t EXCEPT !.exit_price = exit_price]

\* log_trade(symbol, action, entry_price): trades = load_json(TRADE_LOG_FILE,
\* []) is the file, or [] without one; trades.append raises AttributeError
\* on a dict, which leaves the file as it is; else the trade is appended,
\* the last 500 trades are kept and saved
log_trade(log, symbol, at, entry_price) ==
    IF log # None /\ log[1].type = "dict" THEN [raises |-> TRUE, log |-> log]
    ELSE [raises |-> FALSE,
          log    |-> ListLog(LastN(Append(IF log = None THEN <<>> ELSE log[1].trades,
                                          OpenTrade(symbol, at, entry_price)),
                                   TRADE_LOG_KEEP))]

\* update_trade_outcome(trade_id, exit_price): every trade with this id and
\* no exit price yet gets the exit price and its outcome, and the list is
\* saved, [] without a file; iterating a dict yields its keys, and t["id"]
\* on a key raises TypeError before anything is saved
update_trade_outcome(log, trade_id, exit_price) ==
    IF log = None THEN [raises |-> FALSE, log |-> ListLog(<<>>)]
    ELSE IF log[1].type = "dict" THEN [raises |-> log[1].keys # {}, log |-> log]
    ELSE [raises |-> FALSE,
          log    |-> ListLog([i \in 1..Len(log[1].trades) |->
                                IF /\ log[1].trades[i].id = trade_id
                                   /\ log[1].trades[i].exit_price = None
                                    THEN ClosedTrade(log[1].trades[i], exit_price)
                                ELSE log[1].trades[i]])]

\* get_personal_stats(): the statistics of the closed trades, None without
\* closed trades; iterating a dict yields its keys, and t.get on a key raises
\* AttributeError.  Of the statistics the counts and the win rate (in tenths
\* of a percent) are kept
get_personal_stats(log) ==
    LET trades == IF log = None THEN [type |-> "list", trades |-> <<>>] ELSE log[1]
    IN  IF trades.type = "dict"
            THEN [raises |-> trades.keys # {}, value |-> None]
        ELSE LET closed == SelectSeq(trades.trades, LAMBDA t : t.outcome # None)
                 wins   == SelectSeq(closed, LAMBDA t : t.outcome = Some("win"))
                 losses == SelectSeq(closed, LAMBDA t : t.outcome = Some("loss"))
             IN  IF closed = <<>> THEN [raises |-> FALSE, value |-> None]
                 ELSE [raises |-> FALSE,
                       value  |-> Some([total_trades |-> Len(closed),
                                        wins         |-> Len(wins),
                                        losses       |-> Len(losses),
                                        win_rate     |-> WinRate(Len(wins),
                                                                 Len(closed))])]

\* app.update_trade_log: 400 without a symbol; log = load_trade_log() is the
\* file, or {} when the file is absent or empty; log[key] = {...} raises
\* TypeError on a list, which the handler answers with 500
update_trade_log(log, symbol, date) ==
    IF symbol = "" THEN [status |-> 400, log |-> log]
    ELSE LET empty == \/ log = None
                      \/ (log[1].type = "list" /\ log[1].trades = <<>>)
                      \/ (log[1].type = "dict" /\ log[1].keys = {})
         IN  IF empty THEN [status |-> 200, log |-> DictLog({<<date, symbol>>})]
             ELSE IF log[1].type = "list" THEN [status |-> 500, log |-> log]
             ELSE [status |-> 200, log |-> DictLog(log[1].keys \cup {<<date, symbol>>})]

\* the trade logs a scan starts with: none, or the one that two log_trade
\* at 10.00 and an update_trade_outcome of the second trade at 11.00 wrote
ScanTradeLogs ==
    {None,
     update_trade_outcome(log_trade(log_trade(None, "AAA", 0, 1000).log,
                                    "AAA", 1, 1000).log,
                          <<"AAA", 1>>, Some(1100)).log}

(***************************************************************************)
(* Feature extractors: get_short_squeeze_score and                         *)
(* get_sector_leader_score.  A short-interest figure is in thousandths     *)
(* (0.25 is 250, 25.0 is 25000), a short ratio in tenths, a close in       *)
(* cents.                                                                  *)
(***************************************************************************)

\* info.get(key, 0) or 0, for a figure that is None or [float, v]: a
\* missing key, None, 0 and 0.0 all give the int 0
FigureOrZero(info, key) ==
    IF key \notin DOMAIN info THEN [float |-> FALSE, v |-> 0]
    ELSE IF info[key] = None THEN [float |-> FALSE, v |-> 0]
    ELSE IF info[key][1].v = 0 THEN [float |-> FALSE, v |-> 0]
    ELSE info[key][1]

\* short_float as the float the code holds after lines 318-319: the figure
\* v (thousandths), multiplied by 100 when it is a float below 1
ShortFloat(v, scaled) ==
    IF scaled THEN FMul(FOfRatio(v, 1000), FOfRatio(100, 1)) ELSE FOfRatio(v, 1000)

\* short_float > limit (lines 321-322), limit in percent: decided exactly
\* unless the figure is the limit itself, where the float is compared
ShortFloatAbove(v, scaled, limit) ==
    IF (IF scaled THEN v * 100 ELSE v) # limit * 1000
        THEN (IF scaled THEN v * 100 ELSE v) > limit * 1000
    ELSE FCmp(ShortFloat(v, scaled), FOfRatio(limit, 1)) > 0

\* round(float(short_float), 1) in tenths (line 324); on a half tenth the
\* float decides
ShortFloatRounded(v, scaled) ==
    IF ~IsTie(IF scaled THEN v * 100 ELSE v, 100)
        THEN PyRound(IF scaled THEN v * 100 ELSE v, 100)
    ELSE FRound1(ShortFloat(v, scaled))

\* get_short_squeeze_score(ticker_obj): info is None when ticker_obj.info
\* raises.  Returns the score, the short float in tenths of a percent and
\* the short ratio in tenths
get_short_squeeze_score(info) ==
    IF info = None THEN [score |-> 0, short_float |-> 0, short_ratio |-> 0]
    ELSE LET f0 == FigureOrZero(info[1], "shortPercentOfFloat")
             r0 == FigureOrZero(info[1], "shortRatio")
             scaled == f0.float /\ f0.v < 1000
             by_float == IF ShortFloatAbove(f0.v, scaled, 20) THEN 2
                         ELSE IF ShortFloatAbove(f0.v, scaled, 10) THEN 1 ELSE 0
             by_ratio == IF r0.v > 50 THEN 1 ELSE 0
         IN  [score       |-> by_float + by_ratio,
              short_float |-> ShortFloatRounded(f0.v, scaled),
              short_ratio |-> r0.v]

\* the 5-day change of lines 336-337 as the floats compute it
FiveDayChange(c) == PercentChange(c[Len(c)], c[Len(c) - 4])

\* sym_5d > spy_5d * (num / den) for the factors 1.5 and 1 of lines 338 and
\* 340 (line 340 has no product): decided by cross-multiplication unless
\* both sides are equal, where the floats are compared
Outruns(c, spy, num, den) ==
    IF den * (c[Len(c)] - c[Len(c) - 4]) * spy[Len(spy) - 4]
           # num * (spy[Len(spy)] - spy[Len(spy) - 4]) * c[Len(c) - 4]
        THEN den * (c[Len(c)] - c[Len(c) - 4]) * spy[Len(spy) - 4]
                 > num * (spy[Len(spy)] - spy[Len(spy) - 4]) * c[Len(c) - 4]
    ELSE IF den = 1 THEN FCmp(FiveDayChange(c), FiveDayChange(spy)) > 0
    ELSE FCmp(FiveDayChange(c), FMul(FiveDayChange(spy), FOfRatio(num, den))) > 0

\* get_sector_leader_score(symbol, rotation, df, spy_df).  etfs are the keys
\* of SECTOR_ETFS that list the symbol, in the dict's order; rotation maps an
\* ETF to its momentum; close and spy_close are the Close columns, spy_close
\* None when spy_df is None (closes are positive)
get_sector_leader_score(etfs, rotation, close, spy_close) ==
    LET Hot(etf) == DictGet(rotation, etf, "neutral") = "hot"
    IN  IF etfs = <<>> THEN [score |-> 0, leader |-> FALSE]
        ELSE IF ~Hot(etfs[1]) THEN [score |-> 0, leader |-> FALSE]
        ELSE IF spy_close = None \/ Len(close) < 5 THEN [score |-> 0, leader |-> FALSE]
        ELSE IF Len(spy_close[1]) < 5 THEN [score |-> 0, leader |-> FALSE]
        ELSE IF Outruns(close, spy_close[1], 3, 2)
            THEN [score |-> 2, leader |-> TRUE]
        ELSE IF Outruns(close, spy_close[1], 1, 1)
            THEN [score |-> 1, leader |-> FALSE]
        ELSE IF Len(etfs) >= 2 /\ ~Hot(etfs[2]) THEN [score |-> 0, leader |-> FALSE]
        ELSE [score |-> 0, leader |-> FALSE]

\* the figures yfinance reports: absent, None, a fraction, a percentage, an int
ShortFloats ==
    {None} \cup {Some([float |-> TRUE, v |-> v]) :
                    v \in {0, 50, 100, 101, 200, 250, 999, 1000, 10000, 10500,
                           20000, 20500, 25000}}
           \cup {Some([float |-> FALSE, v |-> v]) : v \in {0, 10000, 11000, 20000, 21000}}

ShortRatios == {None} \cup {Some([float |-> TRUE, v |-> v]) : v \in {0, 50, 51, 60}}

SqueezeInfos ==
    {None} \cup {Some([shortPercentOfFloat |-> f, shortRatio |-> r]) :
                    f \in ShortFloats, r \in ShortRatios}
           \cup {Some([shortRatio |-> Some([float |-> TRUE, v |-> 60])])}

\* five closes from 100.00 to the given last close
FiveCloses(last) == <<10000, 10000, 10000, 10000, last>>

LeaderInputs ==
    [etfs      : {<<>>, <<"XLK">>, <<"XLK", "XLC">>},
     rotation  : {<<>>} \cup [{"XLK", "XLC"} -> {"hot", "neutral"}],
     close     : {<<10000, 10000>>}
                    \cup {FiveCloses(c) : c \in {9700, 9750, 9800, 10000, 10200,
                                                 10300, 10400}},
     spy_close : {None, Some(<<10000, 10000>>)}
                    \cup {Some(FiveCloses(c)) : c \in {9800, 10000, 10200}}]

(***************************************************************************)
(* Morning confirmation: run_morning_scan.  A daily frame df is a sequence *)
(* of bars [High, Low, Close], oldest first.                               *)
(***************************************************************************)

RECURSIVE MaxOf(_)
MaxOf(q) == IF Len(q) = 1 THEN q[1] ELSE Max(Head(q), MaxOf(Tail(q)))

RECURSIVE MinOf(_)
MinOf(q) == IF Len(q) = 1 THEN q[1] ELSE Min(Head(q), MinOf(Tail(q)))

\* df.tail(n)
Tail_(df, n) == LastN(df, n)

Highs(df) == [i \in 1..Len(df) |-> df[i].High]

Lows(df) == [i \in 1..Len(df) |-> df[i].Low]

\* get_risk_reward: None on an empty frame (exception) or when sd <= 0,
\* else round(float(td / sd), 2) in hundredths; a quotient that lies on a
\* half hundredth is rounded as the floats make it
get_risk_reward(df) ==
    IF df = <<>> THEN None
    ELSE LET last == df[Len(df)].Close
             high == MaxOf(Highs(Tail_(df, 10)))
             low  == MinOf(Lows(Tail_(df, 10)))
             td   == high - last
             sd   == last - low
         IN  IF sd <= 0 THEN None
             ELSE IF Abs(td) < EXACT_BELOW /\ ~IsTie(td * 100, sd)
                 THEN Some(PyRound(td * 100, sd))
             ELSE Some(FRound2(FDiv(FSub(FPrice(high), FPrice(last)),
                                    FSub(FPrice(last), FPrice(low)))))

\* calculate_atr: float((r['High'] - r['Low']).mean()) over r = df.tail(7), df
\* not empty
calculate_atr(df) ==
    LET r == Tail_(df, 7)
    IN  FDiv(FSumFrom(FZero, [i \in 1..Len(r) |-> FSub(FPrice(r[i].High), FPrice(r[i].Low))]),
             FOfRatio(Len(r), 1))

\* Python max(a, b) of two floats: b if b > a, else a
FMax(a, b) == IF FCmp(b, a) > 0 THEN b ELSE a

\* the sum of High - Low over df.tail(7)
RangeSum(df) == SumSeq([i \in 1..Len(Tail_(df, 7)) |-> Tail_(df, 7)[i].High - Tail_(df, 7)[i].Low])

\* calculate_trade_levels in exact arithmetic, the levels in cents:
\* entry = last * 1.002, stop = max(entry - 1.5 * atr, low5 * 0.99), each
\* rounded to cents, stop_pct in hundredths of a percent
ExactEntry(df) == PyRound(df[Len(df)].Close * 1002, 100000)

\* the stop before rounding, as a multiple of 1 / (20000 * n) cents
ExactStopN(df) ==
    Max(ExactEntry(df) * 20000 * Len(Tail_(df, 7)) - 300 * RangeSum(df),
        MinOf(Lows(Tail_(df, 5))) * 198 * Len(Tail_(df, 7)))

ExactStop(df) == PyRound(ExactStopN(df), 20000 * Len(Tail_(df, 7)))

\* whether the exact arithmetic gives what the floats give: every price of
\* the frame is below EXACT_BELOW and no level lies on a half cent, where
\* the error of the floats decides the rounding
LevelsExact(df) ==
    /\ \A i \in 1..Len(df) : df[i].High < EXACT_BELOW /\ df[i].Low >= 0
                                  /\ df[i].Close < EXACT_BELOW
    /\ ~IsTie(df[Len(df)].Close * 1002, 100000)
    /\ ~IsTie(ExactStopN(df), 20000 * Len(Tail_(df, 7)))
    /\ ExactEntry(df) # 0 => ~IsTie((ExactEntry(df) - ExactStop(df)) * 10000, ExactEntry(df))
    /\ ~IsTie(MaxOf(Highs(Tail_(df, 10))), 100)
    /\ ~IsTie(RangeSum(df), 100 * Len(Tail_(df, 7)))

\* lines 648-657: risk and the dict returned, from entry, stop, resistance
\* and atr in cents and stop_pct; the keys are kept in 1/10000 of a dollar
TradeLevels(entry, stop, pct, resistance, atr) ==
    Some([entry |-> 100 * entry, stop |-> 100 * stop, stop_pct |-> pct,
          target1 |-> 100 * (entry + (entry - stop)),
          target2 |-> 100 * (entry + 2 * (entry - stop)),
          target3 |-> 100 * (entry + 3 * (entry - stop)),
          resistance |-> 100 * resistance, atr |-> 100 * atr])

\* an entry of 0.0 is a ZeroDivisionError at line 651 (None)
ExactLevels(df) ==
    IF ExactEntry(df) = 0 THEN None
    ELSE TradeLevels(ExactEntry(df), ExactStop(df),
                     PyRound((ExactEntry(df) - ExactStop(df)) * 10000, ExactEntry(df)),
                     PyRound(MaxOf(Highs(Tail_(df, 10))), 100),
                     PyRound(RangeSum(df), 100 * Len(Tail_(df, 7))))

\* calculate_trade_levels as the floats compute it (lines 645-656)
FloatStop(df, entry) ==
    FRound2(FMax(FSub(FHundredths(entry), FMul(FOfRatio(3, 2), calculate_atr(df))),
                 FMul(FPrice(MinOf(Lows(Tail_(df, 5)))), FOfRatio(99, 100))))

FloatStopPct(entry, stop) ==
    FRound2(FMul(FDiv(FSub(FHundredths(entry), FHundredths(stop)), FHundredths(entry)),
                 FOfRatio(100, 1)))

FloatLevelsFrom(df, entry, stop) ==
    TradeLevels(entry, stop, FloatStopPct(entry, stop),
                FRound2(FPrice(MaxOf(Highs(Tail_(df, 10))))),
                FRound2(calculate_atr(df)))

FloatLevels(df) ==
    CHOOSE tl \in { IF entry = 0 THEN None
                    ELSE CHOOSE x \in { FloatLevelsFrom(df, entry, stop) :
                                           stop \in {FloatStop(df, entry)} } : TRUE :
                    entry \in {FRound2(FMul(FPrice(df[Len(df)].Close), FOfRatio(1002, 1000)))} } :
        TRUE

\* calculate_trade_levels: None on an empty frame (exception), else the
\* levels, each rounded to cents and kept in 1/10000 of a dollar
calculate_trade_levels(df) ==
    IF df = <<>> THEN None
    ELSE IF LevelsExact(df) THEN ExactLevels(df)
    ELSE FloatLevels(df)

\* spy_chg = (spy_price - spy_open) / spy_open * 100 as the floats compute it
SpyChange(price, open) ==
    FMul(FDiv(FSub(FPrice(price), FPrice(open)), FPrice(open)), FOfRatio(100, 1))

\* spy_chg > 0.3: decided by the exact change unless that is 0.3 exactly,
\* where the floats decide
SpyUp(price, open) ==
    IF (price - open) * 1000 # 3 * open THEN (price - open) * 1000 > 3 * open
    ELSE FCmp(SpyChange(price, open), FOfRatio(3, 10)) > 0

\* spy_chg < -0.3
SpyDown(price, open) ==
    IF (price - open) * 1000 # -3 * open THEN (price - open) * 1000 < -3 * open
    ELSE FCmp(SpyChange(price, open), FOfRatio(-3, 10)) < 0

\* run_morning_scan lines 841-858: spy is None when the SPY fetch raises, else
\* [len, open, price, vwap] of the 5-minute frame
SpyCondition(spy) ==
    IF spy = None THEN "unknown"
    ELSE IF spy[1].len < 5 THEN "unknown"
    ELSE IF SpyUp(spy[1].price, spy[1].open) /\ spy[1].price > spy[1].vwap THEN "bullish"
    ELSE IF SpyDown(spy[1].price, spy[1].open) /\ spy[1].price < spy[1].vwap THEN "bearish"
    ELSE "neutral"

\* Filter 1 with the floor at 0 instead of 0.3
PmTooLowAtZero(pm) == pm <= 0

\* Filter 1 (line 871): pm <= 0.3
PmTooLow(pm) == pm <= 30

\* Filter 2 left out
SpyBlocksNever(spy_condition) == FALSE

\* Filter 2 (line 875)
SpyBlocks(spy_condition) == spy_condition = "bearish"

\* Filter 3 (lines 882-883): rr = tl.get("rr_ratio", 0) if tl else 0;
\* skip when rr and float(rr) < 2.0
RrTooLow(tl) ==
    LET rr == IF tl # None THEN DictGet(tl[1], "rr_ratio", 0) ELSE 0
    IN  rr # 0 /\ rr < 200

\* the loop body of run_morning_scan for one pick: None when the pick is
\* skipped, else the go-list entry.  d is what the gateway returns for the
\* symbol: [fetched, pm, df]
MorningEntry(pick, spy_condition, d) ==
    IF ~d.fetched THEN None
    ELSE IF PmTooLow(d.pm) THEN None
    ELSE IF SpyBlocks(spy_condition) THEN None
    ELSE LET tl == calculate_trade_levels(d.df)
         IN  IF RrTooLow(tl) THEN None
             ELSE Some([symbol |-> pick.symbol, evening_score |-> pick.score,
                        grade |-> pick.grade, prev_close |-> pick.last_close,
                        pm_change |-> d.pm,
                        has_catalyst |-> DictGet(pick, "has_catalyst", FALSE),
                        spy_condition |-> spy_condition, trade_levels |-> tl])

GradeOrder(g) == IF g = "A" THEN 0 ELSE IF g = "B" THEN 1 ELSE 2

\* morning_sort_key(x) <= morning_sort_key(y) as Python compares the tuples
SortKeyLeq(x, y) ==
    LET cx == IF x.has_catalyst THEN 0 ELSE 1
        cy == IF y.has_catalyst THEN 0 ELSE 1
        gx == GradeOrder(x.grade)
        gy == GradeOrder(y.grade)
    IN  \/ cx < cy
        \/ cx = cy /\ gx < gy
        \/ cx = cy /\ gx = gy /\ -x.pm_change <= -y.pm_change

\* x placed after every element of the sorted q that is not greater than it
RECURSIVE InsertSorted(_, _)
InsertSorted(q, x) ==
    IF q = <<>> THEN <<x>>
    ELSE IF SortKeyLeq(Head(q), x) THEN <<Head(q)>> \o InsertSorted(Tail(q), x)
    ELSE <<x>> \o q

\* the key of the sort without the grade: (catalyst_order, -pm_change)
SortKeyLeqNoGrade(x, y) ==
    LET cx == IF x.has_catalyst THEN 0 ELSE 1
        cy == IF y.has_catalyst THEN 0 ELSE 1
    IN  \/ cx < cy
        \/ cx = cy /\ -x.pm_change <= -y.pm_change

RECURSIVE InsertSortedNoGrade(_, _)
InsertSortedNoGrade(q, x) ==
    IF q = <<>> THEN <<x>>
    ELSE IF SortKeyLeqNoGrade(Head(q), x)
        THEN <<Head(q)>> \o InsertSortedNoGrade(Tail(q), x)
    ELSE <<x>> \o q

\* the go-list sorted by catalyst and pm_change only
RECURSIVE SortGolistNoGrade(_)
SortGolistNoGrade(q) ==
    IF q = <<>> THEN <<>>
    ELSE InsertSortedNoGrade(SortGolistNoGrade(SubSeq(q, 1, Len(q) - 1)), q[Len(q)])

\* golist.sort(key=morning_sort_key): a stable sort
RECURSIVE SortGolist(_)
SortGolist(q) ==
    IF q = <<>> THEN <<>>
    ELSE InsertSorted(SortGolist(SubSeq(q, 1, Len(q) - 1)), q[Len(q)])

\* run_morning_scan lines 860-918: the go-list it builds from the evening picks
MorningGolist(picks, spy, data) ==
    SortGolist(Flatten([i \in 1..Len(picks) |->
                           MorningEntry(picks[i], SpyCondition(spy), data[picks[i].symbol])]))

(***************************************************************************)
(* Morning specification: evening results are saved and run_morning_scan   *)
(* runs on them with whatever the gateway returns.                         *)
(***************************************************************************)

Bar(h, l, c) == [High |-> h, Low |-> l, Close |-> c]

\* risk/reward 0.09: the last close sits just under the 10-day high
FrameLowRR ==
    << Bar(102000, 98000, 100000), Bar(104000, 99000, 103000),
       Bar(104000, 100000, 103500) >>

\* risk/reward 10.0
FrameHighRR ==
    << Bar(110000, 99000, 100000), Bar(105000, 99500, 100000),
       Bar(102000, 99800, 100000) >>

MorningFrames == { <<>>, <<Bar(100000, 100000, 100000)>>, FrameLowRR, FrameHighRR }

PmValues == { 20, 30, 31, 150 }

\* safe_fetch gave nothing for the symbol, or the symbol was not asked for
NotAsked == [fetched |-> FALSE, pm |-> 0, df |-> <<>>]

SymbolData == {NotAsked} \cup [fetched : {TRUE}, pm : PmValues, df : MorningFrames]

SpyFrames ==
    { None,
      Some([len |-> 3, open |-> 1000000, price |-> 990000, vwap |-> 995000]),
      Some([len |-> 6, open |-> 1000000, price |-> 990000, vwap |-> 995000]),
      Some([len |-> 6, open |-> 1000000, price |-> 1010000, vwap |-> 1005000]),
      Some([len |-> 6, open |-> 1000000, price |-> 990000, vwap |-> 985000]) }

NoMorningInputs ==
    [ran |-> FALSE, saved |-> FALSE, picks |-> <<>>, spy |-> None,
     data |-> [s \in MorningSymbols |-> NotAsked]]

(***************************************************************************)
(* Backtest: run_backtest.  A bar holds Open, High, Low and Close in cents *)
(* and Volume in thousands of shares; bar i of Python is df[i + 1].  A     *)
(* gap and a relative volume are in hundredths, an ADX and a normalised    *)
(* score in tenths.                                                        *)
(***************************************************************************)

BACKTEST_MIN_BARS == 30

BACKTEST_FIRST == 20

BACKTEST_DAYS == 60

BACKTEST_DIVISOR == 12

ADX_PERIOD == 14

Ohlcv(o, h, l, c, v) == [Open |-> o, High |-> h, Low |-> l, Close |-> c, Volume |-> v]

\* the sum of q[lo..hi]
SumRange(q, lo, hi) == SumSeq(SubSeq(q, lo, hi))

\* calculate_dollar_volume(df) in thousands of cents: the exact product of
\* the last close (cents) and the last volume (thousands of shares)
calculate_dollar_volume(df) == df[Len(df)].Close * df[Len(df)].Volume

\* calculate_dollar_volume(df) < limit, limit in dollars: decided by the
\* exact product unless that is the limit itself, where the float product is
DollarVolumeBelow(df, limit) ==
    IF calculate_dollar_volume(df) # limit \div 10
        THEN calculate_dollar_volume(df) < limit \div 10
    ELSE FCmp(FMul(FHundredths(df[Len(df)].Close),
                   FOfRatio(1000 * df[Len(df)].Volume, 1)),
              FOfRatio(limit, 1)) < 0

\* round(((open - prev) / prev) * 100, 2) of numpy floats, in hundredths: the
\* exact quotient decides the rounding unless it lies on a half hundredth,
\* where the floats do
GapPercent(open, prev) ==
    IF Abs(open - prev) < 200000 /\ ~IsTie((open - prev) * 10000, prev)
        THEN PyRound((open - prev) * 10000, prev)
    ELSE NpRound2(PercentChange(open, prev))

\* calculate_gap_percent(df); the closes are above zero
calculate_gap_percent(df) ==
    IF Len(df) < 2 THEN 0
    ELSE GapPercent(df[Len(df)].Open, df[Len(df) - 1].Close)

\* round(float(volume / avg), 2) in hundredths, avg the mean of five volumes
\* whose sum is total (volumes in thousands of shares); on a half hundredth
\* the floats decide
RelativeVolume(volume, total) ==
    IF ~IsTie(volume * 500, total) THEN PyRound(volume * 500, total)
    ELSE FRound2(FDiv(FOfRatio(1000 * volume, 1),
                      FDiv(FOfRatio(1000 * total, 1), FOfRatio(5, 1))))

\* calculate_relative_volume(df): avg is the mean of Volume.iloc[-6:-1]
calculate_relative_volume(df) ==
    IF Len(df) < 6 THEN 100
    ELSE LET vol   == [k \in 1..Len(df) |-> df[k].Volume]
             total == SumRange(vol, Len(df) - 5, Len(df) - 1)
         IN  IF total = 0 THEN 100 ELSE RelativeVolume(df[Len(df)].Volume, total)

\* last >= high * 0.98 (line 586): decided exactly unless both sides are
\* equal, where the float product is compared
NearHigh(last, high) ==
    IF last * 100 # high * 98 THEN last * 100 > high * 98
    ELSE FCmp(FHundredths(last), FMul(FHundredths(high), FOfRatio(98, 100))) >= 0

\* last > c.tail(5).mean() (line 587), closes the five closes
AboveMean(last, closes) ==
    IF last * 5 # SumSeq(closes) THEN last * 5 > SumSeq(closes)
    ELSE FCmp(FHundredths(last),
              FDiv(FSumFrom(FZero, [k \in 1..Len(closes) |-> FHundredths(closes[k])]),
                   FOfRatio(Len(closes), 1))) > 0

\* (last - dl) / dr >= 0.75 with dr = dh - dl > 0 (lines 588-589)
InUpperQuarter(last, dl, dh) ==
    IF 4 * (last - dl) # 3 * (dh - dl) THEN 4 * (last - dl) > 3 * (dh - dl)
    ELSE FCmp(FDiv(FSub(FHundredths(last), FHundredths(dl)),
                   FSub(FHundredths(dh), FHundredths(dl))),
              FOfRatio(3, 4)) >= 0

\* check_clean_technical_level(df): last >= max(High.tail(10)) * 0.98, last >
\* mean(Close.tail(5)), (last - dl) / dr >= 0.75
check_clean_technical_level(df) ==
    LET n        == Len(df)
        last     == df[n].Close
        close    == [k \in 1..n |-> df[k].Close]
    IN  (IF NearHigh(last, MaxOf(Highs(LastN(df, 10)))) THEN 1 ELSE 0)
        + (IF n >= 5 /\ AboveMean(last, SubSeq(close, n - 4, n)) THEN 1 ELSE 0)
        + (IF df[n].High > df[n].Low /\ InUpperQuarter(last, df[n].Low, df[n].High)
               THEN 1 ELSE 0)

\* acc + the sum of a / b over the pairs [a, b] of q (b > 0), as a fraction
\* [n, d] of two natural numbers of any size
RECURSIVE FractionSum(_, _)
FractionSum(acc, q) ==
    IF q = <<>> \/ acc.d = <<>> THEN acc
    ELSE FractionSum([n |-> BigAdd(BigMul(acc.n, BigOfInt(Head(q).b)),
                                   BigMul(acc.d, BigOfInt(Head(q).a))),
                      d |-> BigMul(acc.d, BigOfInt(Head(q).b))],
                     Tail(q))

FAbs(a) == [a EXCEPT !.s = 1]

\* x with its negative values set to 0 (pdm[pdm < 0] = 0, line 530)
FZeroIfNegative(a) == IF a.m = <<>> \/ a.s < 0 THEN FZero ELSE a

\* the state of pandas' roll_mean over a series: the running sum with the
\* Kahan compensations of its additions and removals, the number of values
\* in the window that are not nan, the number of equal values added in a
\* row and the value added last (None before the first, and for the nan
\* the series starts with)
NewRoll ==
    [sum |-> FZero, ca |-> FZero, cr |-> FZero, nobs |-> 0, same |-> 0, prev |-> None]

\* add_mean with y = val - compensation and t = sum_x + y
RollAddSum(st, v, y, t) ==
    [st EXCEPT !.sum = t, !.ca = FSub(FSub(t, st.sum), y), !.nobs = @ + 1,
               !.same = IF st.prev # None /\ FCmp(st.prev[1], v) = 0 THEN @ + 1 ELSE 1,
               !.prev = Some(v)]

RollAddValue(st, v, y) == RollAddSum(st, v, y, FAdd(st.sum, y))

\* add_mean(val): a nan is passed over
RollAdd(st, val) ==
    IF val = None THEN st ELSE RollAddValue(st, val[1], FSub(val[1], st.ca))

\* remove_mean with y = -val - compensation and t = sum_x + y
RollRemoveSum(st, y, t) ==
    [st EXCEPT !.sum = t, !.cr = FSub(FSub(t, st.sum), y), !.nobs = @ - 1]

RollRemoveValue(st, y) == RollRemoveSum(st, y, FAdd(st.sum, y))

\* remove_mean(val): a nan is passed over
RollRemove(st, val) ==
    IF val = None THEN st ELSE RollRemoveValue(st, FSub(FNeg(val[1]), st.cr))

\* the result of calc_mean for a quotient r = sum_x / nobs of a window
\* without negative values: a quotient below 0 is given as 0
RollQuotient(r) == IF r.m # <<>> /\ r.s < 0 THEN Some(FZero) ELSE Some(r)

\* calc_mean with minp = ADX_PERIOD: nan (None) for a window with fewer
\* values, the value itself when the window holds one value throughout
RollMean(st) ==
    IF st.nobs < ADX_PERIOD THEN None
    ELSE IF st.same >= st.nobs THEN st.prev
    ELSE RollQuotient(FDiv(st.sum, FOfRatio(st.nobs, 1)))

\* pdm at bar k (lines 529-530): High.diff() with its negative values set
\* to 0; nan at the first bar
PdmAt(df, k) ==
    IF k < 2 THEN None
    ELSE Some(FZeroIfNegative(FSub(FHundredths(df[k].High), FHundredths(df[k - 1].High))))

\* mdm at bar k (lines 529-530): Low.diff().abs(); nan at the first bar
MdmAt(df, k) ==
    IF k < 2 THEN None
    ELSE Some(FAbs(FSub(FHundredths(df[k].Low), FHundredths(df[k - 1].Low))))

\* tr at bar k (line 531): the highest of h - l, |h - c.shift()| and
\* |l - c.shift()|, the two last being nan at the first bar
TrAt(df, k) ==
    IF k < 1 THEN None
    ELSE IF k = 1 THEN Some(FSub(FHundredths(df[1].High), FHundredths(df[1].Low)))
    ELSE Some(FMax(FMax(FSub(FHundredths(df[k].High), FHundredths(df[k].Low)),
                        FAbs(FSub(FHundredths(df[k].High), FHundredths(df[k - 1].Close)))),
                   FAbs(FSub(FHundredths(df[k].Low), FHundredths(df[k - 1].Close)))))

\* 100 * (|pdi - mdi| / (pdi + mdi)) (line 535); 0 / 0 is nan
DxFrom(pdi, mdi, total) ==
    IF total.m = <<>> THEN None
    ELSE Some(FMul(FOfRatio(100, 1), FDiv(FAbs(FSub(pdi, mdi)), total)))

DxOfIndices(pdi, mdi) == DxFrom(pdi, mdi, FAdd(pdi, mdi))

\* dx of a bar from the rolling means of tr, pdm and mdm (lines 533-535):
\* nan while a mean is nan, and for an atr of 0, where pdi and mdi are inf
\* or nan and their difference is nan
DxOf(atr, pm, mm) ==
    IF atr = None \/ pm = None \/ mm = None THEN None
    ELSE IF atr[1].m = <<>> THEN None
    ELSE DxOfIndices(FMul(FOfRatio(100, 1), FDiv(pm[1], atr[1])),
                     FMul(FOfRatio(100, 1), FDiv(mm[1], atr[1])))

\* the window of a rolling mean moved on by one bar: the value that leaves
\* it is removed, then the new one added
RollNext(st, leaves, enters) == RollAdd(RollRemove(st, leaves), enters)

\* the four rolling means moved on to bar st.k + 1: first those of tr, pdm
\* and mdm, then that of dx, whose values are kept in dx
AdxMeans(df, st, k) ==
    [st EXCEPT !.k = k,
               !.atr = RollNext(@, TrAt(df, k - ADX_PERIOD), TrAt(df, k)),
               !.pm  = RollNext(@, PdmAt(df, k - ADX_PERIOD), PdmAt(df, k)),
               !.mm  = RollNext(@, MdmAt(df, k - ADX_PERIOD), MdmAt(df, k))]

AdxDx(st) ==
    [st EXCEPT !.dx = Append(@, DxOf(RollMean(st.atr), RollMean(st.pm), RollMean(st.mm)))]

AdxMean(st) ==
    [st EXCEPT !.adx = RollNext(@, IF st.k > ADX_PERIOD THEN st.dx[st.k - ADX_PERIOD]
                                   ELSE None,
                                st.dx[st.k])]

\* lines 529-537 bar by bar, as pandas computes the rolling means: in one
\* pass over the series, from its first bar
RECURSIVE AdxRoll(_, _)
AdxRoll(df, st) ==
    IF st.k >= Len(df) THEN st
    ELSE AdxRoll(df, AdxMean(AdxDx(AdxMeans(df, st, st.k + 1))))

\* round(float(v), 1) if not pd.isna(v) else 0 (line 538), in tenths
AdxRounded(v) == IF v = None THEN 0 ELSE FRound1(v[1])

\* lines 529-538 in binary64
AdxFloat(df) ==
    AdxRounded(RollMean(AdxRoll(df, [k |-> 0, atr |-> NewRoll, pm |-> NewRoll,
                                     mm |-> NewRoll, adx |-> NewRoll, dx |-> <<>>]).adx))

\* 100 * the mean of the ratios whose sum is the fraction f, in tenths and
\* cut to 1/200 of a tenth: [q, r] with q the tenths and r in 0..199
AdxCut(f) ==
    BigDivInt(BigDivMod(BigMulInt(BigMulInt(f.n, 1000, 0), 200, 0),
                        BigMulInt(f.d, ADX_PERIOD, 0)).q, 200)

\* the tenth nearest to a value cut to [q, r] that is not within 1/100 of
\* a half tenth
AdxExact(cut) == BigToInt(cut.q) + (IF cut.r >= 100 THEN 1 ELSE 0)

\* the exact value cut to [q, r] rounded to a tenth, by the floats when it is
\* within 1/100 of a tenth of a half tenth
AdxRoundedOr(cut, df) ==
    IF cut.r \in 98..101 THEN AdxFloat(df) ELSE AdxExact(cut)

\* calculate_adx(df), in tenths: pdm is High.diff() with negatives zeroed,
\* mdm is abs(Low.diff()); dx exists from bar 15 on and its 14-bar mean
\* from bar 28 on; before that, or when a window of the last 14 has no
\* movement (0 / 0) or no range (an atr of 0), the value is nan and 0 is
\* returned.  In dx = 100 * |pdi - mdi| / (pdi + mdi) the atr cancels,
\* leaving the 14-bar sums of pdm and mdm: the mean of dx as an exact
\* fraction differs from the float the code rounds by the rounding errors
\* of the rolling means only, far less than 1/100 of a tenth, so the
\* fraction decides the rounding unless it lies within 1/100 of a tenth of
\* a half, where the floats do
calculate_adx(df) ==
    LET n      == Len(df)
        pdm    == [k \in 1..n |-> IF k = 1 THEN 0 ELSE Max(0, df[k].High - df[k - 1].High)]
        mdm    == [k \in 1..n |-> IF k = 1 THEN 0 ELSE Abs(df[k].Low - df[k - 1].Low)]
        tr     == [k \in 1..n |->
                     IF k = 1 THEN df[1].High - df[1].Low
                     ELSE Max(Max(df[k].High - df[k].Low, Abs(df[k].High - df[k - 1].Close)),
                              Abs(df[k].Low - df[k - 1].Close))]
        P(t)   == SumRange(pdm, t - ADX_PERIOD + 1, t)
        M(t)   == SumRange(mdm, t - ADX_PERIOD + 1, t)
        T(t)   == SumRange(tr, t - ADX_PERIOD + 1, t)
        dx     == [k \in 1..ADX_PERIOD |->
                     [a |-> Abs(P(n - ADX_PERIOD + k) - M(n - ADX_PERIOD + k)),
                      b |-> P(n - ADX_PERIOD + k) + M(n - ADX_PERIOD + k)]]
    IN  IF n < 2 * ADX_PERIOD THEN 0
        ELSE IF \E t \in (n - ADX_PERIOD + 1)..n : P(t) + M(t) = 0 \/ T(t) = 0 THEN 0
        ELSE AdxRoundedOr(AdxCut(FractionSum([n |-> <<>>, d |-> <<1>>], dx)), df)

\* the point total of run_backtest (lines 752-759)
BacktestPoints(g, r, t, adx, last) ==
    (IF 200 <= g /\ g <= 800 THEN 3 ELSE IF 50 <= g /\ g < 200 THEN 1 ELSE 0)
    + (IF r >= 200 THEN 2 ELSE IF r >= 150 THEN 1 ELSE 0)
    + t
    + (IF adx > 250 THEN 1 ELSE 0)
    - (IF last < 500 THEN 2 ELSE 0)

\* the point total normalised over 10 points instead of 12
BacktestNormTen(score) == Min(100, Max(0, PyRound(score * 100, 10)))

\* n = round(min(10, max(0, (score / 12) * 10)), 1)
BacktestNorm(score) == Min(100, Max(0, PyRound(score * 100, BACKTEST_DIVISOR)))

\* the slice run_backtest would score if it handed over the whole frame
BacktestSliceAll(df, i) == df

\* sl = df.iloc[:i + 1]
BacktestSlice(df, i) == SubSeq(df, 1, i + 1)

\* lines 761-762 for the normalised score n: if n >= 3 the bar is a signal,
\* of grade A from 8, B from 6, C below
SignalOf(n) ==
    [signal |-> n >= 30, n |-> n,
     grade |-> IF n >= 80 THEN "A" ELSE IF n >= 60 THEN "B" ELSE "C"]

\* lines 747-762 on the slice sl: whether the bar gives a signal, and its
\* normalised score and grade
BacktestSignal(sl) ==
    IF DollarVolumeBelow(sl, 10000000) THEN [signal |-> FALSE, n |-> 0, grade |-> "C"]
    ELSE SignalOf(BacktestNorm(BacktestPoints(calculate_gap_percent(sl),
                                              calculate_relative_volume(sl),
                                              check_clean_technical_level(sl),
                                              calculate_adx(sl),
                                              sl[Len(sl)].Close)))

\* the res dict run_backtest starts with
NewBacktestResult ==
    [total_signals |-> 0, winning_signals |-> 0, win_rate |-> 0,
     by_grade |-> [g \in {"A", "B", "C"} |-> [wins |-> 0, total |-> 0, win_rate |-> 0]]]

\* line 763: pct = ((nxt - last) / last) * 100; won = pct > 1, decided by
\* the exact change unless that is 1 exactly, where the floats decide
Won(last, nxt) ==
    IF (nxt - last) * 100 # last THEN (nxt - last) * 100 > last
    ELSE FCmp(PercentChange(nxt, last), FOfRatio(1, 1)) > 0

\* lines 763-768: pct = (nxt - last) / last * 100, won = pct > 1, counters
CountSignal(res, grade, last, nxt) ==
    LET w   == IF Won(last, nxt) THEN 1 ELSE 0
    IN  [res EXCEPT !.total_signals = @ + 1,
                    !.winning_signals = @ + w,
                    !.by_grade[grade].total = @ + 1,
                    !.by_grade[grade].wins = @ + w]

\* lines 770-776: the win rates, in tenths of a percent (avg_gain and
\* avg_loss are not kept)
FinishBacktest(res) ==
    [res EXCEPT
        !.win_rate = IF res.total_signals > 0
                        THEN WinRate(res.winning_signals, res.total_signals) ELSE 0,
        !.by_grade = [g \in {"A", "B", "C"} |->
                        [res.by_grade[g] EXCEPT !.win_rate =
                            IF res.by_grade[g].total > 0
                                THEN WinRate(res.by_grade[g].wins, res.by_grade[g].total)
                            ELSE 0]]]

\* a quiet bar: no gap, usual volume, lows alternating between 98 and 99
QuietBar(k) == Ohlcv(10000, 10100, IF k % 2 = 0 THEN 9800 ELSE 9900, 10000, 200)

\* "gap3": a 3% gap on double volume closing near its high; "gap1": a 1% gap
\* on 1.5 times the volume closing at 100; "up": a close at 105; "edge": a
\* close at 101; "thin": a gap on 50 thousand shares; "flat3": a 3% gap on
\* double volume closing at 103, where it opened; "edge3": a close at
\* 104.03, which is 1% above 103
BarOf(kind, k) ==
    IF kind = "gap3" THEN Ohlcv(10300, 10400, 10250, 10380, 400)
    ELSE IF kind = "flat3" THEN Ohlcv(10300, 10400, 10250, 10300, 400)
    ELSE IF kind = "edge3" THEN Ohlcv(10350, 10450, 10300, 10403, 200)
    ELSE IF kind = "gap1" THEN Ohlcv(10100, 10150, 9990, 10000, 300)
    ELSE IF kind = "up" THEN Ohlcv(10400, 10600, 10350, 10500, 200)
    ELSE IF kind = "edge" THEN Ohlcv(10000, 10150, 9900, 10100, 200)
    ELSE IF kind = "thin" THEN Ohlcv(10300, 10400, 10250, 10380, 50)
    ELSE QuietBar(k)

\* the frame of n bars whose bars 22, 28, 29 and 30 are of the given kinds
BacktestFrame(n, k22, k28, k29, k30) ==
    [k \in 1..n |-> BarOf(IF k = 23 THEN k22 ELSE IF k = 29 THEN k28
                          ELSE IF k = 30 THEN k29 ELSE IF k = 31 THEN k30
                          ELSE "quiet", k)]

BacktestFrames ==
    { BacktestFrame(30, k22, k28, k29, "quiet") :
        k22 \in {"quiet", "gap3"}, k28 \in {"quiet", "gap3", "gap1", "thin", "flat3"},
        k29 \in {"quiet", "gap3", "up", "edge", "edge3"} }
    \cup
    { BacktestFrame(31, k22, k28, k29, k30) :
        k22 \in {"quiet", "gap3"}, k28 \in {"quiet", "gap3", "gap1", "thin", "flat3"},
        k29 \in {"quiet", "gap3", "up", "edge", "edge3"}, k30 \in {"quiet", "up"} }

\* what safe_fetch returns for the second symbol: nothing, a frame of 29
\* bars, or a frame
SecondFrames ==
    { None, Some(BacktestFrame(29, "gap3", "gap3", "quiet", "quiet")),
      Some(BacktestFrame(31, "quiet", "gap3", "up", "quiet")) }

(***************************************************************************)
(* Dispatcher (app.py): manual triggers start background threads, the      *)
(* scheduler runs scheduled_evening and scheduled_morning on its own       *)
(* workers, and GET /api/scan is served on a thread of its own.  Workers   *)
(* 1..MaxThreads are the threads of the manual triggers, EveningJob and    *)
(* MorningJob the scheduler's workers (one instance per job at a time),    *)
(* ScanRequest the thread of a GET /api/scan request.  A worker is [kind,  *)
(* pc, h, results, raised, given]: h and results are the locals of         *)
(* run_scanner / update_outcomes / save_scan_to_history /                  *)
(* run_morning_scan / run_backtest, given is the date and the gateway's    *)
(* answers an update_outcomes in progress works with.  The sheet that      *)
(* save_scan_to_sheets writes and restore_scan_from_sheets reads is        *)
(* outside the process: what a restore finds is an input.  latest_morning, *)
(* which only GET /api/morning reads and which no file is written from,    *)
(* is not kept.                                                            *)
(***************************************************************************)

MaxThreads == 2

MaxScanDay == 1

\* the scans the triggers and the scheduler start while the application runs
MaxStarts == 3

\* how many trigger handlers may have started their thread and not yet
\* answered, at a time
MaxPending == 1

EveningJob == MaxThreads + 1

MorningJob == MaxThreads + 2

Workers == 1..(MaxThreads + 2)

\* the thread that serves a GET /api/scan request
ScanRequest == MaxThreads + 3

Threads == 1..(MaxThreads + 3)

ManualWorkers == 1..MaxThreads

NoFetch == [s \in Symbols |-> None]

NoOp == [op |-> "none", date |-> 0, fetch |-> NoFetch, replaced |-> FALSE]

\* raised: the except clause of run_*_background ran
IdleWorker == [kind |-> "None", pc |-> "idle", h |-> <<>>, results |-> <<>>,
               raised |-> FALSE, given |-> NoOp]

\* where run_*_background goes after its first statements: into run_scanner,
\* to the look at scan_results.json of run_morning_background, or into
\* run_backtest
FirstPc(kind) ==
    IF kind = "evening" THEN "uo_load"
    ELSE IF kind = "morning" THEN "m_check" ELSE "b_run"

\* load_json(RESULTS_FILE, {}).get("results", []) (run_morning_scan lines
\* 836-837)
ResultsOf(file) == IF file = None THEN <<>> ELSE file[1]

\* the first statement of the scan function a scheduled job calls
JobPc(w) == IF w = EveningJob THEN "uo_load" ELSE "m_load"

\* positions inside run_scanner, run_morning_scan or run_backtest
ScanPcs == {"uo_load", "uo_save", "train", "res_save", "hist_load", "hist_save",
            "m_load", "m_save", "b_run", "b_save"}

Executing(w) == threads[w].pc \in ScanPcs

\* where a worker goes when its scan function returns: a manual thread to its
\* finally clause, a scheduler worker back to idle
AfterScan(w) ==
    IF w \in ManualWorkers THEN [threads[w] EXCEPT !.pc = "finally", !.h = <<>>, !.results = <<>>]
    ELSE IdleWorker

(***************************************************************************)
(* Values of the variables a specification does not use                    *)
(***************************************************************************)

IdleStatus == [running |-> FALSE, task |-> "None", error |-> "None"]

\* nothing trained, nothing adjusted yet
NoMlLog == [train |-> None, adjust |-> FALSE]

\* run_scanner not started
NoScan == [pc |-> "idle"]

ScoreIdle == features = FeatureDefaults /\ ml_adj = 0 /\ scored = NotScored

HistIdle == today = 0 /\ history_file = <<>> /\ lastop = NoOp

MorningIdle == results_file = None /\ morning_file = None /\ morning_in = NoMorningInputs

\* no manual trigger has answered and none is about to
NoResponse == [answer |-> "None", pending |-> 0]

DispatchIdle ==
    /\ scan_status = IdleStatus
    /\ threads = [w \in Threads |-> IdleWorker]
    /\ response = NoResponse
    /\ latest_results = None
    /\ started = 0

MlIdle == ml_file = None /\ ml_available = TRUE /\ ml_log = NoMlLog

ScanIdle == gap_file = <<>> /\ scan = NoScan

NotSaving == [pc |-> "idle"]

NoCall == [fn |-> "none"]

\* run_backtest not started, and no backtest_results.json
NoBacktest == [pc |-> "idle", saved |-> None]

LogIdle == trade_log = None

CallIdle == call = NoCall /\ result = None

BacktestIdle == backtest = NoBacktest

SaveIdle ==
    /\ disk = None /\ save_error = FALSE /\ saving = NotSaving
    /\ returned = None /\ loaded = None

InitScore ==
    /\ \E b \in BaseInputs, ovs \in [1..MaxOverrides -> Overrides] :
           /\ Ordered(ovs)
           /\ features = ApplyOverrides(b, ovs).f
           /\ ml_adj = ApplyOverrides(b, ovs).adj
    /\ scored = NotScored
    /\ HistIdle /\ MorningIdle /\ DispatchIdle
    /\ MlIdle /\ ScanIdle /\ SaveIdle /\ LogIdle /\ CallIdle /\ BacktestIdle

\* run_scanner lines 994-1020: the symbol's features are scored and graded
ScoreSymbol ==
    /\ scored = NotScored
    /\ scored' = ScorePick(features, ml_adj)
    /\ UNCHANGED <<features, ml_adj, histVars, morningVars, dispatchVars,
                    mlVars, scanVars, saveVars,
                    logVars, callVars, btVars>>

NextScore == ScoreSymbol

SpecScore == InitScore /\ [][NextScore]_vars

InitHist ==
    /\ today = 0
    /\ history_file = <<>>
    /\ lastop = NoOp
    /\ ScoreIdle /\ MorningIdle /\ DispatchIdle
    /\ MlIdle /\ ScanIdle /\ SaveIdle /\ LogIdle /\ CallIdle /\ BacktestIdle

\* the calendar date moves to the next day
AdvanceDay ==
    /\ today < MaxDay
    /\ today' = today + 1
    /\ UNCHANGED <<history_file, lastop, scoreVars, morningVars, dispatchVars,
                    mlVars, scanVars, saveVars,
                    logVars, callVars, btVars>>

\* the threads that can be inside update_outcomes together: the thread of a
\* manual trigger and the scheduler's evening worker
HistCallers == {1, EveningJob}

\* update_outcomes, lines 799-812: the history is loaded, yesterday's date is
\* taken and the pending picks are resolved in memory with what the gateway
\* returns (safe_fetch and time.sleep(0.3) per pick); nothing is saved yet
UpdateOutcomesLoad ==
    \E w \in HistCallers, fetch \in HistFetchMaps :
        /\ threads[w].pc = "idle"
        /\ threads' = [threads EXCEPT ![w] =
              [IdleWorker EXCEPT !.kind = "evening", !.pc = "uo_save",
                                 !.h = update_outcomes(history_file, today, fetch),
                                 !.given = [op |-> "update_outcomes", date |-> today,
                                            fetch |-> fetch, replaced |-> FALSE]]]
        /\ UNCHANGED <<scan_status, response, latest_results, started, scoreVars, histVars, morningVars,
                       mlVars, scanVars, saveVars, logVars, callVars, btVars>>

\* update_outcomes, line 813: save_json(HISTORY_FILE, h) writes what the call
\* holds in memory over whatever the file holds by now
UpdateOutcomesSave ==
    \E w \in HistCallers :
        /\ threads[w].pc = "uo_save"
        /\ history_file' = threads[w].h
        /\ lastop' = threads[w].given
        /\ threads' = [threads EXCEPT ![w] = IdleWorker]
        /\ UNCHANGED <<today, scan_status, response, latest_results, started, scoreVars,
                       morningVars,
                       mlVars, scanVars, saveVars, logVars, callVars, btVars>>

\* save_scan_to_history(results): load, upsert today's entry, trim, save
SaveScanToHistory ==
    \E results \in HistResults :
        /\ history_file' = save_scan_to_history(history_file, today, results)
        /\ lastop' = [op |-> "save_scan_to_history", date |-> today, fetch |-> NoFetch,
                      replaced |-> \E i \in 1..Len(history_file) :
                                      history_file[i].date = today]
        /\ UNCHANGED <<today, scoreVars, morningVars, dispatchVars,
                    mlVars, scanVars, saveVars,
                    logVars, callVars, btVars>>

NextHist == AdvanceDay \/ UpdateOutcomesLoad \/ UpdateOutcomesSave \/ SaveScanToHistory

SpecHist == InitHist /\ [][NextHist]_vars

\* the days the calendar moves on over a history that is already long
MaxKeepDays == 2

\* a history of 89 or 90 entries, one per day from day 1 on, the last one
\* written today
InitKeep ==
    /\ \E n \in (HISTORY_KEEP - 1)..HISTORY_KEEP, results \in ResultLists :
          /\ history_file = [d \in 1..n |-> HistoryEntry(d, results)]
          /\ today = n
    /\ lastop = NoOp
    /\ ScoreIdle /\ MorningIdle /\ DispatchIdle
    /\ MlIdle /\ ScanIdle /\ SaveIdle /\ LogIdle /\ CallIdle /\ BacktestIdle

\* the calendar date moves to the next day
KeepDayPasses ==
    /\ today < HISTORY_KEEP + MaxKeepDays
    /\ today' = today + 1
    /\ UNCHANGED <<history_file, lastop, scoreVars, morningVars, dispatchVars,
                    mlVars, scanVars, saveVars,
                    logVars, callVars, btVars>>

NextKeep == KeepDayPasses \/ SaveScanToHistory

SpecKeep == InitKeep /\ [][NextKeep]_vars

InitMorning ==
    /\ results_file = None
    /\ morning_file = None
    /\ morning_in = NoMorningInputs
    /\ ScoreIdle /\ HistIdle /\ DispatchIdle
    /\ MlIdle /\ ScanIdle /\ SaveIdle /\ LogIdle /\ CallIdle /\ BacktestIdle

\* run_scanner line 1035: the evening shortlist is saved to RESULTS_FILE
SaveResults ==
    \E results \in ResultLists :
        /\ results_file' = Some(results)
        /\ UNCHANGED <<morning_file, morning_in, scoreVars, histVars, dispatchVars,
                    mlVars, scanVars, saveVars,
                    logVars, callVars, btVars>>

\* POST /api/trade-log for a symbol, or for none, dated today
PostTradeLog ==
    /\ \E symbol \in {"", "AAA"} :
          trade_log' = update_trade_log(trade_log, symbol, today).log
    /\ UNCHANGED <<scoreVars, histVars, morningVars, dispatchVars, mlVars, scanVars,
                   saveVars, callVars, btVars>>

\* the trades a trade log holds while log_trade is called again
MaxTrades == 2

\* the exit prices update_trade_outcome is called with: none, 10.00, 11.00
TradeExits == {None, Some(1000), Some(1100)}

\* how many trades there are in the trade log
TradesLogged ==
    IF trade_log # None /\ trade_log[1].type = "list" THEN Len(trade_log[1].trades) ELSE 0

\* api_log_trade (lines 1154-1155): log_trade of a buy of AAA at 10.00, a
\* second after the trade logged before it
LogTrade ==
    /\ TradesLogged < MaxTrades
    /\ trade_log' = log_trade(trade_log, "AAA", TradesLogged, 1000).log
    /\ UNCHANGED <<scoreVars, histVars, morningVars, dispatchVars, mlVars, scanVars,
                   saveVars, callVars, btVars>>

\* api_close_trade (lines 1157-1158): update_trade_outcome for the id of a
\* trade of AAA, logged or not
UpdateTradeOutcome ==
    /\ \E at \in 0..(MaxTrades - 1), exit_price \in TradeExits :
          trade_log' = update_trade_outcome(trade_log, <<"AAA", at>>, exit_price).log
    /\ UNCHANGED <<scoreVars, histVars, morningVars, dispatchVars, mlVars, scanVars,
                   saveVars, callVars, btVars>>

\* run_morning_scan, lines 836-838: the evening shortlist is read; with no
\* picks the function returns without saving.  morning_in is the record of
\* the run in progress or, after it, of the last run
RunMorningScanLoad ==
    /\ threads[MorningJob].pc = "idle"
    /\ IF ResultsOf(results_file) = <<>>
           THEN /\ morning_in' = [NoMorningInputs EXCEPT !.ran = TRUE]
                /\ UNCHANGED threads
       ELSE /\ morning_in' = [NoMorningInputs EXCEPT !.picks = ResultsOf(results_file)]
            /\ threads' = [threads EXCEPT ![MorningJob] =
                  [IdleWorker EXCEPT !.kind = "morning", !.pc = "m_save",
                                     !.results = ResultsOf(results_file)]]
    /\ UNCHANGED <<results_file, morning_file, scan_status, response, latest_results, started,
                   scoreVars,
                   histVars, mlVars, scanVars, saveVars, logVars, callVars, btVars>>

\* run_morning_scan, lines 840-925: SPY and every pick read at line 836 are
\* fetched, the go-list is built, sorted and saved, unless
\* get_personal_stats() raises while the output is built (line 923) and
\* what was fetched is dropped
RunMorningScanSave ==
    /\ threads[MorningJob].pc = "m_save"
    /\ LET picks == threads[MorningJob].results
           asked == {picks[i].symbol : i \in 1..Len(picks)}
       IN  IF get_personal_stats(trade_log).raises
               THEN /\ morning_in' = [NoMorningInputs EXCEPT !.ran = TRUE, !.picks = picks]
                    /\ UNCHANGED morning_file
           ELSE \E spy \in SpyFrames, fetched \in [asked -> SymbolData] :
                   LET data == [s \in MorningSymbols |->
                                  IF s \in asked THEN fetched[s] ELSE NotAsked]
                   IN  /\ morning_in' = [ran |-> TRUE, saved |-> TRUE,
                                         picks |-> picks, spy |-> spy, data |-> data]
                       /\ morning_file' =
                             LET golist == MorningGolist(picks, spy, data)
                             IN  Some([golist |-> golist, total_confirmed |-> Len(golist)])
    /\ threads' = [threads EXCEPT ![MorningJob] = IdleWorker]
    /\ UNCHANGED <<results_file, scan_status, response, latest_results, started, scoreVars, histVars,
                   mlVars, scanVars, saveVars, logVars, callVars, btVars>>

\* of the writers of trade_log.json the morning run is taken with the one
\* whose file makes get_personal_stats raise (line 923): a list that
\* log_trade or update_trade_outcome saved is to that line what no file is
NextMorning == SaveResults \/ RunMorningScanLoad \/ RunMorningScanSave \/ PostTradeLog

SpecMorning == InitMorning /\ [][NextMorning]_vars

\* run_morning_scan runs once on an evening shortlist of two or three picks
InitOrder ==
    /\ results_file \in { Some(q) : q \in OrderLists }
    /\ morning_file = None
    /\ morning_in = NoMorningInputs
    /\ ScoreIdle /\ HistIdle /\ DispatchIdle
    /\ MlIdle /\ ScanIdle /\ SaveIdle /\ LogIdle /\ CallIdle /\ BacktestIdle

\* the one run of run_morning_scan begins
RunMorningScanOnce == ~morning_in.ran /\ RunMorningScanLoad

NextOrder == RunMorningScanOnce \/ RunMorningScanSave

SpecOrder == InitOrder /\ [][NextOrder]_vars

(***************************************************************************)
(* Adjustment model specification                                          *)
(***************************************************************************)

InitModel ==
    /\ history_file \in TrainHistories
    /\ today = MaxTrainEntries /\ lastop = NoOp
    /\ ml_file \in MlFiles
    /\ ml_available \in BOOLEAN
    /\ ml_log = NoMlLog
    /\ features \in AdjustRows
    /\ ml_adj = 0
    /\ scored = NotScored
    /\ MorningIdle /\ DispatchIdle /\ ScanIdle /\ SaveIdle /\ LogIdle /\ CallIdle /\ BacktestIdle

\* train_ml_model()
TrainMlModel ==
    \E fit \in FitDocs :
        LET r == train_ml_model(ml_available, history_file, fit)
        IN  /\ ml_file' = IF r.write # None THEN r.write ELSE ml_file
            /\ ml_log' = [ml_log EXCEPT !.train = Some([picks |-> r.picks, ret |-> r.ret])]
            /\ UNCHANGED <<ml_available, scoreVars, histVars, morningVars, dispatchVars,
                           scanVars, saveVars,
                    logVars, callVars, btVars>>

\* run_scanner line 994: ml_adj = get_ml_adjustment(features)
GetMlAdjustment ==
    /\ scored = NotScored
    /\ ml_adj' = get_ml_adjustment(ml_file, ml_available, features)
    /\ ml_log' = [ml_log EXCEPT !.adjust = TRUE]
    /\ UNCHANGED <<features, scored, ml_file, ml_available, histVars, morningVars,
                   dispatchVars, scanVars, saveVars,
                    logVars, callVars, btVars>>

\* run_scanner line 995: score_stock_v4(features, ml_adj); on a nan
\* adjustment it returns 0 for a dollar volume under the floor and raises
\* otherwise (scored is then the raised call)
ScoreAdjusted ==
    /\ ml_log.adjust
    /\ ScoreSymbol

NextModel == TrainMlModel \/ GetMlAdjustment \/ ScoreAdjusted

SpecModel == InitModel /\ [][NextModel]_vars

(***************************************************************************)
(* Evening scan specification                                              *)
(***************************************************************************)

InitScan ==
    /\ \E market \in Markets :
          scan = [pc |-> "start", i |-> 1, results |-> <<>>, seen |-> <<>>,
                  market |-> market, gap_start |-> <<>>, h |-> <<>>]
    /\ gap_file \in GapFiles
    /\ ml_file \in {None, Some(DocTech), Some(DocZeroScale)}
    /\ ml_available = TRUE /\ ml_log = NoMlLog
    /\ trade_log \in ScanTradeLogs
    /\ ScoreIdle /\ HistIdle /\ MorningIdle /\ DispatchIdle /\ SaveIdle /\ CallIdle /\ BacktestIdle

\* run_scanner line 933, update_outcomes line 799: h = load_json(HISTORY_FILE, [])
ScanOutcomesLoad ==
    /\ scan.pc = "start"
    /\ scan' = [scan EXCEPT !.pc = "outcomes", !.h = history_file, !.gap_start = gap_file]
    /\ UNCHANGED <<gap_file, scoreVars, histVars, morningVars, dispatchVars,
                   mlVars, saveVars, logVars, callVars, btVars>>

\* update_outcomes lines 800-813: the fetches for yesterday's pending picks,
\* then save_json(HISTORY_FILE, h) of the history loaded before them
ScanOutcomesSave ==
    /\ scan.pc = "outcomes"
    /\ \E fetch \in FetchMaps :
          history_file' = update_outcomes(scan.h, today, fetch)
    /\ scan' = [scan EXCEPT !.pc = "train"]
    /\ UNCHANGED <<today, lastop, gap_file, scoreVars, morningVars, dispatchVars,
                   mlVars, saveVars, logVars, callVars, btVars>>

\* run_scanner training on the history as it was before the outcome pass
ScanBeginStaleHistory ==
    /\ scan.pc = "train"
    /\ \E fit \in FitDocs :
          LET r == train_ml_model(ml_available, scan.h, fit)
          IN  /\ ml_file' = IF r.write # None THEN r.write ELSE ml_file
              /\ ml_log' = [ml_log EXCEPT !.train = Some([picks |-> r.picks, ret |-> r.ret])]
    /\ scan' = [scan EXCEPT !.pc = "loop"]
    /\ UNCHANGED <<gap_file, ml_available, scoreVars, histVars, morningVars,
                   dispatchVars, saveVars, logVars, callVars, btVars>>

\* run_scanner lines 934-939: train_ml_model(), which loads the history file
\* (line 690), and the market context
ScanBegin ==
    /\ scan.pc = "train"
    /\ \E fit \in FitDocs :
          LET r == train_ml_model(ml_available, history_file, fit)
          IN  /\ ml_file' = IF r.write # None THEN r.write ELSE ml_file
              /\ ml_log' = [ml_log EXCEPT !.train = Some([picks |-> r.picks, ret |-> r.ret])]
    /\ scan' = [scan EXCEPT !.pc = "loop"]
    /\ UNCHANGED <<gap_file, ml_available, scoreVars, histVars, morningVars,
                   dispatchVars, saveVars, logVars, callVars, btVars>>

\* run_scanner lines 941-1022: one iteration of the loop over the watchlist
ScanSymbol ==
    /\ scan.pc = "loop"
    /\ scan.i <= WatchlistLen
    /\ scan' = ScanOneSymbol(scan, gap_file, ml_file, ml_available)
    /\ UNCHANGED <<gap_file, scoreVars, histVars, morningVars, dispatchVars,
                   mlVars, saveVars,
                    logVars, callVars, btVars>>

\* run_scanner lines 1024-1035: sort, truncate, build the output (which calls
\* get_personal_stats(); its exception leaves run_scanner) and
\* save_json(RESULTS_FILE, output)
ScanPersist ==
    /\ scan.pc = "loop"
    /\ scan.i > WatchlistLen
    /\ LET results == Shortlist(scan.results)
       IN  IF get_personal_stats(trade_log).raises
               THEN /\ scan' = [scan EXCEPT !.pc = "raised_output", !.results = results]
                    /\ UNCHANGED results_file
           ELSE /\ results_file' = Some(results)
                /\ scan' = [scan EXCEPT !.pc = "history", !.results = results]
    /\ UNCHANGED <<morning_file, morning_in, gap_file, scoreVars, histVars,
                   dispatchVars, mlVars, saveVars, logVars, callVars, btVars>>

\* run_scanner lines 1036-1038: save_scan_to_history(results), return output
ScanHistory ==
    /\ scan.pc = "history"
    /\ history_file' = save_scan_to_history(history_file, today, scan.results)
    /\ scan' = [scan EXCEPT !.pc = "done"]
    /\ UNCHANGED <<today, lastop, gap_file, scoreVars, morningVars, dispatchVars,
                   mlVars, saveVars, logVars, callVars, btVars>>

NextScan ==
    \/ ScanOutcomesLoad \/ ScanOutcomesSave \/ ScanBegin \/ ScanSymbol
    \/ ScanPersist \/ ScanHistory \/ PostTradeLog \/ LogTrade \/ UpdateTradeOutcome

SpecScan == InitScan /\ [][NextScan]_vars

\* run_scanner on the day after a scan whose picks are partly unresolved:
\* yesterday's entry holds 19 resolved picks and 3 pending ones, or 10
\* trainable picks and 3 pending ones, or there is no history
InitRun ==
    /\ scan = [pc |-> "start", i |-> 1, results |-> <<>>, seen |-> <<>>,
               market |-> BaseMarket, gap_start |-> <<>>, h |-> <<>>]
    /\ today = 1 /\ lastop = NoOp
    /\ history_file \in { <<>>,
                           <<TrainEntry(0, [w |-> 10, l |-> 9, p |-> 3, b |-> 0])>>,
                           <<TrainEntry(0, [w |-> 5, l |-> 5, p |-> 3, b |-> 2])>> }
    /\ gap_file = <<>>
    /\ MlIdle /\ ScoreIdle /\ MorningIdle /\ DispatchIdle /\ SaveIdle /\ LogIdle
    /\ CallIdle /\ BacktestIdle

SpecRun == InitRun /\ [][NextScan]_vars

\* the places of a run that has not ended
ScanRunning == scan.pc \in {"start", "outcomes", "train", "loop", "history"}

\* run_scanner runs on a thread of its own and is not suspended for ever:
\* while it has not ended it keeps taking steps.  The steps of the run are
\* the steps that change scan, and one is possible exactly while the run has
\* not ended, so this is weak fairness of the run's steps written without
\* ENABLED
SpecScanFair ==
    SpecScan /\ ([]<>(~ScanRunning) \/ []<><<scan' # scan>>_scan)

(***************************************************************************)
(* Persistence specification: a run saves its output and returns it, and   *)
(* readers load the file                                                   *)
(***************************************************************************)

InitSave ==
    /\ disk \in {None, Some([text |-> <<"a">>, closed |-> TRUE])}
    /\ save_error = FALSE /\ saving = NotSaving
    /\ returned = None /\ loaded = None
    /\ ScoreIdle /\ HistIdle /\ MorningIdle /\ DispatchIdle /\ MlIdle /\ ScanIdle /\ LogIdle /\ CallIdle /\ BacktestIdle

\* run_scanner line 1035: save_json(RESULTS_FILE, output)
RunSaves ==
    /\ saving.pc = "idle"
    /\ \E output \in Outputs, fault \in Faults, cut \in 0..MaxItems :
          LET r == save_json(disk, output, fault, cut)
          IN  /\ disk' = r.disk
              /\ save_error' = r.error
              /\ saving' = [pc |-> "saved", output |-> output]
    /\ returned' = None
    /\ UNCHANGED <<loaded, scoreVars, histVars, morningVars, dispatchVars, mlVars, scanVars,
                   logVars, callVars, btVars>>

\* the picks of the output a run built, an item standing for a pick; a pick
\* of the shortlist scores 3.0 or more
OutputResults(output) ==
    [j \in 1..Len(output) |->
        [symbol |-> output[j], score |-> MIN_SCORE, grade |-> "C", last_close |-> 10000]]

\* save_scan_to_history(results) on the history h, as load_json(HISTORY_FILE,
\* []) reads the file afterwards: the history with today's entry, the
\* history as it was when open raised, or [] for the file a failed write
\* left cut short.  The entry copies symbol, score, grade, last_close and
\* features of each pick (lines 786-788): a value of the output json.dump
\* cannot encode fails the write of the history only when it lies in one
\* of these (copied), not in another field of a pick or of the output
save_history(h, now, output, fault, copied) ==
    IF fault = "open" THEN h
    ELSE IF fault = "write" \/ (copied /\ FirstBad(output) <= Len(output)) THEN <<>>
    ELSE save_scan_to_history(h, now, OutputResults(output))

\* run_scanner lines 1036-1038: save_scan_to_history(results), return output
RunReturns ==
    /\ saving.pc = "saved"
    /\ \E fault \in Faults, copied \in BOOLEAN :
          history_file' = save_history(history_file, today, saving.output, fault, copied)
    /\ returned' = Some(saving.output)
    /\ saving' = NotSaving
    /\ UNCHANGED <<today, lastop, disk, save_error, loaded, scoreVars, morningVars,
                   dispatchVars, mlVars, scanVars, logVars, callVars, btVars>>

\* a reader calls load_json(fp, default) with default None or []
LoadJson ==
    /\ \E default \in {None, Some(<<>>)} : loaded' = Some(load_json(disk, default))
    /\ UNCHANGED <<disk, save_error, saving, returned, scoreVars, histVars, morningVars,
                   dispatchVars, mlVars, scanVars,
                   logVars, callVars, btVars>>

NextSave == RunSaves \/ RunReturns \/ LoadJson

SpecSave == InitSave /\ [][NextSave]_vars

(***************************************************************************)
(* Feature extractor specification: each extractor is called on every      *)
(* input of its domain                                                     *)
(***************************************************************************)

InitCall ==
    /\ call = NoCall /\ result = None
    /\ ScoreIdle /\ HistIdle /\ MorningIdle /\ DispatchIdle /\ MlIdle /\ ScanIdle
    /\ SaveIdle /\ LogIdle /\ BacktestIdle

\* run_scanner line 959: get_short_squeeze_score(ticker)
GetShortSqueezeScore ==
    /\ \E info \in SqueezeInfos :
          /\ call' = [fn |-> "get_short_squeeze_score", info |-> info]
          /\ result' = Some(get_short_squeeze_score(info))
    /\ UNCHANGED <<scoreVars, histVars, morningVars, dispatchVars, mlVars, scanVars,
                   saveVars, logVars, btVars>>

\* run_scanner line 960: get_sector_leader_score(sym, rotation, df, spy_df)
GetSectorLeaderScore ==
    /\ \E in \in LeaderInputs :
          /\ call' = [fn |-> "get_sector_leader_score", in |-> in]
          /\ result' = Some(get_sector_leader_score(in.etfs, in.rotation, in.close,
                                                     in.spy_close))
    /\ UNCHANGED <<scoreVars, histVars, morningVars, dispatchVars, mlVars, scanVars,
                   saveVars, logVars, btVars>>

NextCall == GetShortSqueezeScore \/ GetSectorLeaderScore

SpecCall == InitCall /\ [][NextCall]_vars

(***************************************************************************)
(* Backtest specification: run_backtest over two symbols                   *)
(***************************************************************************)

InitBacktest ==
    /\ \E df \in BacktestFrames, second \in SecondFrames :
          backtest = [pc |-> "fetch", market |-> <<Some(df), second>>, s |-> 1,
                      i |-> 0, res |-> NewBacktestResult, signals |-> <<>>,
                      saved |-> None]
    /\ ScoreIdle /\ HistIdle /\ MorningIdle /\ DispatchIdle /\ MlIdle /\ ScanIdle
    /\ SaveIdle /\ LogIdle /\ CallIdle

\* lines 740-744: safe_fetch for the next symbol; continue without a frame
\* or with fewer than 30 bars
BacktestFetch ==
    /\ backtest.pc = "fetch"
    /\ backtest.s <= Len(backtest.market)
    /\ LET df == backtest.market[backtest.s]
       IN  backtest' =
              IF df = None \/ Len(df[1]) < BACKTEST_MIN_BARS
                  THEN [backtest EXCEPT !.s = @ + 1]
              ELSE [backtest EXCEPT !.pc = "loop", !.i = BACKTEST_FIRST]
    /\ UNCHANGED <<scoreVars, histVars, morningVars, dispatchVars, mlVars, scanVars,
                   saveVars, logVars, callVars>>

\* the frame of the symbol run_backtest is at
BarFrame(b) == b.market[b.s][1]

\* lines 762-768 for the bar b.i: a signal is counted with its outcome,
\* last and nxt being cl.iloc[i] and cl.iloc[i + 1]
BarCounted(b, sig, last, nxt) ==
    IF sig.signal
        THEN [b EXCEPT !.res = CountSignal(@, sig.grade, last, nxt),
                       !.signals = Append(@, [s |-> b.s, i |-> b.i,
                                              n |-> sig.n, grade |-> sig.grade,
                                              won |-> Won(last, nxt)])]
    ELSE b

\* line 745: the next i of range(20, min(len(df) - 1, days)), or the next
\* symbol after the last
BarDone(b, len) ==
    IF b.i + 1 < Min(len - 1, BACKTEST_DAYS) THEN [b EXCEPT !.i = @ + 1]
    ELSE [b EXCEPT !.pc = "fetch", !.s = @ + 1]

\* lines 745-769: one iteration of for i in range(20, min(len(df) - 1, days))
BacktestBar ==
    /\ backtest.pc = "loop"
    /\ backtest' = BarDone(BarCounted(backtest,
                                      BacktestSignal(BacktestSlice(BarFrame(backtest),
                                                                   backtest.i)),
                                      BarFrame(backtest)[backtest.i + 1].Close,
                                      BarFrame(backtest)[backtest.i + 2].Close),
                           Len(BarFrame(backtest)))
    /\ UNCHANGED <<scoreVars, histVars, morningVars, dispatchVars, mlVars, scanVars,
                   saveVars, logVars, callVars>>

\* lines 770-777: the rates are computed, save_json(BACKTEST_FILE, res)
BacktestSave ==
    /\ backtest.pc = "fetch"
    /\ backtest.s > Len(backtest.market)
    /\ backtest' = [backtest EXCEPT !.pc = "done", !.res = FinishBacktest(@),
                                    !.saved = Some(FinishBacktest(backtest.res))]
    /\ UNCHANGED <<scoreVars, histVars, morningVars, dispatchVars, mlVars, scanVars,
                   saveVars, logVars, callVars>>

NextBacktest == BacktestFetch \/ BacktestBar \/ BacktestSave

SpecBacktest == InitBacktest /\ [][NextBacktest]_vars

(***************************************************************************)
(* Dispatcher specification                                                *)
(***************************************************************************)

\* what the gateway returns to the scans the dispatcher starts
ScanFetches == { NoFetch, [s \in Symbols |-> IF s = "AAA" THEN Some(102000) ELSE None] }

\* the shortlists a run_scanner the dispatcher starts ends with
ScanResults == { <<>>, <<PickAAA>> }

\* what restore_scan_from_sheets finds: no client, sheet or data row, or the
\* scan a run saved to the sheet
SheetScans == {None} \cup {Some(r) : r \in ScanResults}

ScanData == [fetched |-> TRUE, pm |-> 150, df |-> FrameHighRR]

\* the res dicts a run_backtest the dispatcher starts ends with: no symbol
\* had data, or one signal of grade C that won
BacktestResults ==
    { FinishBacktest(NewBacktestResult),
      FinishBacktest(CountSignal(NewBacktestResult, "C", 10300, 10500)) }

\* app.py lines 42-44: latest_results = None, scan_status; no thread runs
Init ==
    /\ scan_status = IdleStatus
    /\ threads = [w \in Threads |-> IdleWorker]
    /\ response = NoResponse
    /\ latest_results = None
    /\ started = 0
    /\ ScoreIdle /\ HistIdle /\ MorningIdle
    /\ MlIdle /\ ScanIdle /\ SaveIdle /\ LogIdle /\ CallIdle /\ BacktestIdle

\* trigger_scan / trigger_morning / trigger_backtest while scan_status.running
TriggerRejected ==
    /\ scan_status.running
    /\ response' = [response EXCEPT !.answer = "already_running"]
    /\ UNCHANGED <<scan_status, threads, latest_results, started, scoreVars, histVars,
                   morningVars, mlVars, scanVars, saveVars, logVars, callVars, btVars>>

\* trigger_scan / trigger_morning / trigger_backtest up to the return of
\* Thread.start(): the flag is read, the task is written and the background
\* thread is started; the handler has not answered yet
TriggerStarted ==
    \E kind \in {"evening", "morning", "backtest"}, w \in ManualWorkers :
        /\ ~scan_status.running
        /\ started < MaxStarts
        /\ threads[w].pc = "idle"
        /\ \A v \in ManualWorkers : v < w => threads[v].pc # "idle"
        /\ started' = started + 1
        /\ scan_status' = [scan_status EXCEPT !.task = kind]
        /\ threads' = [threads EXCEPT ![w] = [IdleWorker EXCEPT !.kind = kind, !.pc = "spawned"]]
        /\ response.pending < MaxPending
        /\ response' = [response EXCEPT !.pending = @ + 1]
        /\ UNCHANGED <<latest_results, scoreVars, histVars, morningVars, mlVars,
                       scanVars, saveVars, logVars, callVars, btVars>>

\* trigger_scan / trigger_morning / trigger_backtest, last statement: a
\* handler that started its thread answers "started", whatever the thread
\* has done in between
TriggerAnswered ==
    /\ response.pending > 0
    /\ response' = [answer |-> "started", pending |-> response.pending - 1]
    /\ UNCHANGED <<scan_status, threads, latest_results, started, scoreVars, histVars,
                   morningVars, mlVars, scanVars, saveVars, logVars, callVars, btVars>>

\* run_*_background, first statements: running = True, error = None
BackgroundEnter ==
    \E w \in ManualWorkers :
        /\ threads[w].pc = "spawned"
        /\ scan_status' = [scan_status EXCEPT !.running = TRUE, !.error = "None"]
        /\ threads' = [threads EXCEPT ![w].pc = FirstPc(threads[w].kind)]
        /\ UNCHANGED <<response, latest_results, started, scoreVars, histVars, morningVars,
                       mlVars, scanVars, saveVars, logVars, callVars, btVars>>

\* run_*_background without its finally clause: the thread just ends
BackgroundNoFinally ==
    \E w \in ManualWorkers :
        /\ threads[w].pc = "finally"
        /\ threads' = [threads EXCEPT ![w] = IdleWorker]
        /\ UNCHANGED <<scan_status, response, latest_results, started, scoreVars, histVars,
                       morningVars, mlVars, scanVars, saveVars, logVars, callVars,
                       btVars>>

\* run_*_background, finally clause: running = False; the thread ends
BackgroundFinally ==
    \E w \in ManualWorkers :
        /\ threads[w].pc = "finally"
        /\ scan_status' = [scan_status EXCEPT !.running = FALSE]
        /\ threads' = [threads EXCEPT ![w] = IdleWorker]
        /\ UNCHANGED <<response, latest_results, started, scoreVars, histVars, morningVars,
                       mlVars, scanVars, saveVars, logVars, callVars, btVars>>

\* the scheduler fires scheduled_evening or scheduled_morning: no look at
\* scan_status; a job whose previous instance still runs is not started again
SchedulerFires ==
    \E w \in {EveningJob, MorningJob} :
        /\ threads[w].pc = "idle"
        /\ started < MaxStarts
        /\ started' = started + 1
        /\ threads' = [threads EXCEPT ![w] =
              [IdleWorker EXCEPT !.kind = IF w = EveningJob THEN "evening" ELSE "morning",
                                 !.pc = JobPc(w)]]
        /\ UNCHANGED <<scan_status, response, latest_results, scoreVars, histVars,
                       morningVars, mlVars, scanVars, saveVars, logVars, callVars,
                       btVars>>

\* update_outcomes, load and resolve in memory (lines 799-812)
OutcomesLoad ==
    \E w \in Workers, fetch \in ScanFetches :
        /\ threads[w].pc = "uo_load"
        /\ threads' = [threads EXCEPT ![w].pc = "uo_save",
                                      ![w].h = update_outcomes(history_file, today, fetch)]
        /\ UNCHANGED <<scan_status, response, latest_results, started, scoreVars, histVars,
                       morningVars, mlVars, scanVars, saveVars, logVars, callVars,
                       btVars>>

\* update_outcomes, save_json(HISTORY_FILE, h) (line 813)
OutcomesSave ==
    \E w \in Workers :
        /\ threads[w].pc = "uo_save"
        /\ history_file' = threads[w].h
        /\ threads' = [threads EXCEPT ![w].pc = "train", ![w].h = <<>>]
        /\ UNCHANGED <<today, lastop, scan_status, response, latest_results, started, scoreVars,
                       morningVars, mlVars, scanVars, saveVars, logVars, callVars,
                       btVars>>

\* run_scanner line 934: train_ml_model(), which loads the history file and
\* with 20 trainable picks or more writes the weights file (what it
\* reports, ml_log, is not kept here)
ModelTrain ==
    \E w \in Workers, fit \in FitDocs :
        /\ threads[w].pc = "train"
        /\ LET r == train_ml_model(ml_available, history_file, fit)
           IN  ml_file' = IF r.write # None THEN r.write ELSE ml_file
        /\ threads' = [threads EXCEPT ![w].pc = "res_save"]
        /\ UNCHANGED <<ml_available, ml_log, scan_status, response, latest_results,
                       started, scoreVars, histVars, morningVars, scanVars, saveVars,
                       logVars, callVars, btVars>>

\* run_scanner, the symbol loop and save_json(RESULTS_FILE, output)
\* (lines 941-1035)
ResultsSave ==
    \E w \in Workers, results \in ScanResults :
        /\ threads[w].pc = "res_save"
        /\ results_file' = Some(results)
        /\ threads' = [threads EXCEPT ![w].pc = "hist_load", ![w].results = results]
        /\ UNCHANGED <<morning_file, morning_in, scan_status, response, latest_results, started,
                       scoreVars, histVars, mlVars, scanVars, saveVars, logVars,
                       callVars, btVars>>

\* save_scan_to_history, load and upsert in memory (lines 783-793)
HistoryLoad ==
    \E w \in Workers :
        /\ threads[w].pc = "hist_load"
        /\ threads' = [threads EXCEPT ![w].pc = "hist_save",
                          ![w].h = save_scan_to_history(history_file, today, threads[w].results)]
        /\ UNCHANGED <<scan_status, response, latest_results, started, scoreVars, histVars,
                       morningVars, mlVars, scanVars, saveVars, logVars, callVars,
                       btVars>>

\* save_scan_to_history, save_json(HISTORY_FILE, h) (line 794); run_scanner
\* returns its output, which run_scan_background (app.py line 380) and
\* scheduled_evening (line 438) assign to latest_results
HistorySave ==
    \E w \in Workers :
        /\ threads[w].pc = "hist_save"
        /\ history_file' = threads[w].h
        /\ latest_results' = Some(threads[w].results)
        /\ threads' = [threads EXCEPT ![w] = AfterScan(w)]
        /\ UNCHANGED <<today, lastop, scan_status, response, started, scoreVars, morningVars,
                       mlVars, scanVars, saveVars, logVars, callVars, btVars>>

\* run_morning_background, line 398: is scan_results.json there?
MorningCheck ==
    \E w \in ManualWorkers :
        /\ threads[w].pc = "m_check"
        /\ threads' = [threads EXCEPT ![w].pc =
                          IF results_file = None THEN "m_restore" ELSE "m_load"]
        /\ UNCHANGED <<scan_status, response, latest_results, started, scoreVars, histVars,
                       morningVars, mlVars, scanVars, saveVars, logVars, callVars,
                       btVars>>

\* restore_scan_from_sheets (app.py lines 238-268), called at line 400: with
\* no client, sheet or data row it returns None, else it writes the scan
\* kept in the sheet to scan_results.json and run_morning_background
\* assigns it to latest_results (lines 401-403)
MorningRestore ==
    \E w \in ManualWorkers, restored \in SheetScans :
        /\ threads[w].pc = "m_restore"
        /\ results_file' = IF restored = None THEN results_file ELSE restored
        /\ latest_results' = IF restored = None THEN latest_results ELSE restored
        /\ threads' = [threads EXCEPT ![w].pc = "m_load"]
        /\ UNCHANGED <<morning_file, morning_in, scan_status, response, started, scoreVars,
                       histVars, mlVars, scanVars, saveVars, logVars, callVars, btVars>>

\* run_morning_scan, lines 836-838: the evening shortlist is read; with no
\* picks the function returns
MorningLoad ==
    \E w \in Workers :
        /\ threads[w].pc = "m_load"
        /\ threads' = [threads EXCEPT ![w] =
                          IF ResultsOf(results_file) = <<>> THEN AfterScan(w)
                          ELSE [threads[w] EXCEPT !.pc = "m_save",
                                                  !.results = ResultsOf(results_file)]]
        /\ UNCHANGED <<scan_status, response, latest_results, started, scoreVars, histVars,
                       morningVars, mlVars, scanVars, saveVars, logVars, callVars,
                       btVars>>

\* run_morning_scan, lines 840-925: the picks read at line 836 are fetched,
\* the go-list is built and saved (morning_in, the record the morning
\* specification keeps of a run's inputs, is not kept here)
MorningSave ==
    \E w \in Workers :
        /\ threads[w].pc = "m_save"
        /\ LET picks == threads[w].results
               data  == [s \in Symbols |->
                           IF \E i \in 1..Len(picks) : picks[i].symbol = s
                               THEN ScanData ELSE NotAsked]
               golist == MorningGolist(picks, None, data)
           IN  morning_file' = Some([golist |-> golist, total_confirmed |-> Len(golist)])
        /\ threads' = [threads EXCEPT ![w] = AfterScan(w)]
        /\ UNCHANGED <<results_file, morning_in, scan_status, response, latest_results, started,
                       scoreVars, histVars, mlVars, scanVars, saveVars, logVars,
                       callVars, btVars>>

\* run_backtest, lines 730-776: the fetches, the loop over the bars and the
\* rates; res is the dict it has built
BacktestRun ==
    \E w \in Workers, res \in BacktestResults :
        /\ threads[w].pc = "b_run"
        /\ threads' = [threads EXCEPT ![w].pc = "b_save", ![w].results = res]
        /\ UNCHANGED <<scan_status, response, latest_results, started, scoreVars, histVars,
                       morningVars, mlVars, scanVars, saveVars, logVars, callVars,
                       btVars>>

\* run_backtest, lines 777-779: save_json(BACKTEST_FILE, res); return res
BacktestWrite ==
    \E w \in Workers :
        /\ threads[w].pc = "b_save"
        /\ backtest' = [backtest EXCEPT !.saved = Some(threads[w].results)]
        /\ threads' = [threads EXCEPT ![w] = AfterScan(w)]
        /\ UNCHANGED <<scan_status, response, latest_results, started, scoreVars, histVars,
                       morningVars, mlVars, scanVars, saveVars, logVars, callVars>>

\* get_scan, lines 541-543: with latest_results None the handler loads
\* scan_results.json; with no file it goes on to the sheet.  (A request
\* that finds latest_results set returns it and changes nothing.)
GetScan ==
    /\ threads[ScanRequest].pc = "idle"
    /\ latest_results = None
    /\ latest_results' = results_file
    /\ threads' = [threads EXCEPT ![ScanRequest] =
                      IF results_file = None
                          THEN [IdleWorker EXCEPT !.kind = "get_scan", !.pc = "gs_restore"]
                      ELSE IdleWorker]
    /\ UNCHANGED <<scan_status, response, started, scoreVars, histVars, morningVars,
                   mlVars, scanVars, saveVars, logVars, callVars, btVars>>

\* get_scan, lines 544-552: latest_results = restore_scan_from_sheets(),
\* which writes the scan it finds to scan_results.json
GetScanRestore ==
    \E restored \in SheetScans :
        /\ threads[ScanRequest].pc = "gs_restore"
        /\ results_file' = IF restored = None THEN results_file ELSE restored
        /\ latest_results' = restored
        /\ threads' = [threads EXCEPT ![ScanRequest] = IdleWorker]
        /\ UNCHANGED <<morning_file, morning_in, scan_status, response, started, scoreVars,
                       histVars, mlVars, scanVars, saveVars, logVars, callVars, btVars>>

\* an exception leaves the scan function: a manual thread records it in
\* scan_status.error (except clause), a scheduler worker just ends
ScanRaises ==
    \E w \in Workers :
        /\ threads[w].pc \in {"res_save", "m_save", "b_run"}
        /\ threads' = [threads EXCEPT ![w] =
                          IF w \in ManualWorkers THEN [AfterScan(w) EXCEPT !.raised = TRUE]
                          ELSE AfterScan(w)]
        /\ scan_status' = IF w \in ManualWorkers
                              THEN [scan_status EXCEPT !.error = "error"]
                          ELSE scan_status
        /\ UNCHANGED <<response, latest_results, started, scoreVars, histVars, morningVars,
                       mlVars, scanVars, saveVars, logVars, callVars, btVars>>

\* the calendar date moves on while the application runs
MidnightPasses ==
    /\ today < MaxScanDay
    /\ today' = today + 1
    /\ UNCHANGED <<history_file, lastop, scoreVars, morningVars, dispatchVars,
                    mlVars, scanVars, saveVars,
                    logVars, callVars, btVars>>

Next ==
    \/ TriggerRejected \/ TriggerStarted \/ TriggerAnswered
    \/ BackgroundEnter \/ BackgroundFinally
    \/ SchedulerFires \/ OutcomesLoad \/ OutcomesSave \/ ModelTrain \/ ResultsSave
    \/ HistoryLoad \/ HistorySave \/ MorningCheck \/ MorningRestore \/ MorningLoad
    \/ MorningSave \/ BacktestRun \/ BacktestWrite \/ GetScan \/ GetScanRestore
    \/ ScanRaises \/ MidnightPasses

Spec == Init /\ [][Next]_vars

\* the manual triggers, their background threads and the GET /api/scan
\* requests alone, the scheduler being idle
NextManual ==
    \/ TriggerRejected \/ TriggerStarted \/ TriggerAnswered
    \/ BackgroundEnter \/ BackgroundFinally
    \/ OutcomesLoad \/ OutcomesSave \/ ModelTrain \/ ResultsSave
    \/ HistoryLoad \/ HistorySave
    \/ MorningCheck \/ MorningRestore \/ MorningLoad \/ MorningSave
    \/ BacktestRun \/ BacktestWrite \/ GetScan \/ GetScanRestore \/ ScanRaises

\* a step of the background thread w
ThreadRuns(w) == threads[w].pc # "idle" /\ threads'[w] # threads[w]

\* a background thread that was started is not suspended for ever: a thread
\* that is not idle can always take a step, so this is weak fairness of each
\* thread's steps, WF_vars(ThreadRuns(w)), written without ENABLED
SpecManual ==
    /\ Init /\ [][NextManual]_vars
    /\ \A w \in ManualWorkers :
          []<>(threads[w].pc = "idle") \/ []<><<ThreadRuns(w)>>_vars

(***************************************************************************)
(* Claims on the scoring engine (checked under SpecScore)                  *)
(***************************************************************************)

WasScored == scored # NotScored

\* C5: whenever dollar_vol < 10,000,000 the engine returns score exactly 0
\* and a reasons list that holds the single exclusion reason, whatever the
\* other features and the model adjustment are.
C5_HardFilter ==
    (WasScored /\ features.dollar_vol < 10000000)
        => /\ scored.score = 0
           /\ Len(scored.reasons) = 1
           /\ scored.reasons[1] = ExclusionReason

\* a symbol under the floor whose other features alone would earn the top score
C5_Witness ==
    /\ WasScored
    /\ features.dollar_vol < 10000000
    /\ RawPoints(features, ml_adj) >= 26
    /\ scored.score = 0

\* C6: the score lies in [0,10] (0..100 tenths) and the grade attached to a
\* retained pick is A when score >= 8, B when 6 <= score < 8, C otherwise.
C6_ScoreRangeAndGrade ==
    WasScored =>
        /\ 0 <= scored.score /\ scored.score <= 100
        /\ scored.kept =>
              /\ (scored.score >= 80) => scored.grade = "A"
              /\ (scored.score >= 60 /\ scored.score < 80) => scored.grade = "B"
              /\ (scored.score < 60) => scored.grade = "C"

\* a record whose raw total exceeds the divisor: the upper clamp acts
C6_Witness ==
    /\ WasScored
    /\ RawPoints(features, ml_adj) > 26
    /\ scored.score = 100
    /\ scored.grade = "A"

IsScenario == features = ScenarioFeatures /\ ml_adj = 0

\* C7 as stated: the section 8 scenario is scored at 8.0 or more and graded A.
C7_Original ==
    (WasScored /\ IsScenario) => (scored.score >= 80 /\ scored.grade = "A")

\* C7 as amended: the section 8 scenario earns 11 raw points, is scored at
\* 4.2 and graded C.
C7_ScenarioScore ==
    (WasScored /\ IsScenario)
        => /\ RawPoints(features, ml_adj) = 11
           /\ scored.score = 42
           /\ scored.kept
           /\ scored.grade = "C"

C7_Witness == WasScored /\ IsScenario /\ Len(scored.reasons) = 10

\* the rvol values on both sides of every band edge between 1.0 and 3.5
RvolRange == {100, 149, 150, 199, 200, 299, 300, 350}

\* C17: with every other feature and the adjustment held fixed and
\* dollar_vol >= 10M, the score is non-decreasing in rvol over 1.0..3.5.
C17_RvolMonotone ==
    (WasScored /\ features.dollar_vol >= DOLLAR_VOL_FLOOR) =>
        \A a \in RvolRange, b \in RvolRange :
            a <= b =>
                score_stock_v4([features EXCEPT !.rvol = a], ml_adj).score
                    <= score_stock_v4([features EXCEPT !.rvol = b], ml_adj).score

\* a scored record above the floor whose score is strictly higher at rvol 3.5
\* than at rvol 1.0 and lies strictly inside the 0..10 range at both
C17_Witness ==
    /\ WasScored
    /\ features.dollar_vol >= DOLLAR_VOL_FLOOR
    /\ features.rvol \in RvolRange
    /\ score_stock_v4([features EXCEPT !.rvol = 100], ml_adj).score > 0
    /\ score_stock_v4([features EXCEPT !.rvol = 100], ml_adj).score
          < score_stock_v4([features EXCEPT !.rvol = 350], ml_adj).score
    /\ score_stock_v4([features EXCEPT !.rvol = 350], ml_adj).score < 100

\* C20 as stated: the raw point sum before normalization is at most the
\* divisor 26 for every record in the documented ranges and every adjustment
\* in [-1,+1].
C20_Original ==
    (WasScored /\ features.dollar_vol >= DOLLAR_VOL_FLOOR) =>
        RawPoints(features, ml_adj) <= SCORE_DIVISOR

\* C20 amended: the raw point sum is at most 38, which is above the divisor
\* 26; a raw sum above 26 is reported as the score 10.0.
C20_RawPointsBound ==
    (WasScored /\ features.dollar_vol >= DOLLAR_VOL_FLOOR) =>
        /\ RawPoints(features, ml_adj) <= 38
        /\ (RawPoints(features, ml_adj) > SCORE_DIVISOR => scored.score = 100)

\* the record with every rule at its highest contribution was scored: 38 raw
\* points, score 10.0
C20_Witness ==
    /\ WasScored
    /\ features = BestFeatures /\ ml_adj = 100
    /\ RawPoints(features, ml_adj) = 38
    /\ scored.score = 100

(***************************************************************************)
(* Claims on the outcome history (checked under SpecHist)                  *)
(***************************************************************************)

Resolved(pick) == pick.outcome # Pending

HistoryPicks(h) ==
    UNION { {[date |-> h[i].date, pick |-> h[i].picks[j]] : j \in 1..Len(h[i].picks)}
            : i \in 1..Len(h) }

\* C2 as stated: once a pick's outcome is win or loss, no later run of
\* update_outcomes or save_scan_to_history (the date only moving forward)
\* changes its outcome or outcome_pct or sets it back to null: every resolved
\* pick is found unchanged in the history after each step.
C2_Original ==
    [][\A p \in HistoryPicks(history_file) :
          Resolved(p.pick) => p \in HistoryPicks(history_file')]_vars

\* C3 as stated: an update_outcomes run resolves every pending pick whose date
\* lies before the run's date and whose symbol's close fetch succeeds.
C3_Original ==
    lastop.op = "update_outcomes" =>
        \A p \in HistoryPicks(history_file) :
            (p.date < lastop.date /\ lastop.fetch[p.pick.symbol] # None)
                => Resolved(p.pick)

\* C4: the history holds exactly one entry per date: no two entries share a
\* date, and after save_scan_to_history the date it ran on has its entry,
\* which is the one just built.
C4_OneEntryPerDate ==
    /\ \A i, j \in 1..Len(history_file) :
          history_file[i].date = history_file[j].date => i = j
    /\ lastop.op = "save_scan_to_history" =>
          /\ Len(history_file) >= 1
          /\ history_file[Len(history_file)].date = lastop.date
          /\ \A k \in 1..Len(history_file[Len(history_file)].picks) :
                ~Resolved(history_file[Len(history_file)].picks[k])

\* save_scan_to_history has just replaced the entry of a date saved before
C4_Witness ==
    /\ lastop.op = "save_scan_to_history"
    /\ lastop.replaced
    /\ Len(history_file) >= 2

\* C18 as stated: when update_outcomes resolves a pick, the outcome is win
\* exactly when the percent change from last_close to the fetched close is
\* greater than +1%, loss otherwise; outcome and outcome_pct are set together.
\* Stated of the step in which a call loads the history and resolves the
\* picks in memory.
C18_Original ==
    [][\A w \in HistCallers :
          (threads[w].pc = "idle" /\ threads'[w].pc = "uo_save") =>
              \A i \in 1..Len(history_file) : \A j \in 1..Len(history_file[i].picks) :
                  LET before == history_file[i].picks[j]
                      after  == threads'[w].h[i].picks[j]
                      close  == threads'[w].given.fetch[before.symbol][1]
                  IN  (before.outcome = Pending /\ after.outcome # Pending) =>
                          /\ after.outcome \in {"win", "loss"}
                          /\ after.outcome_pct # None
                          /\ after.outcome = "win"
                                <=> (close - before.last_close) * 100 > before.last_close
    ]_vars

(***************************************************************************)
(* Claims on the morning confirmation (checked under SpecMorning)          *)
(***************************************************************************)

\* the last run_morning_scan saved a go-list, which morning_file now holds
MorningSaved == morning_in.ran /\ morning_in.saved /\ morning_file # None

SavedGolist == morning_file[1].golist

InGolist(sym) == \E i \in 1..Len(SavedGolist) : SavedGolist[i].symbol = sym

\* reward over risk of the recomputed trade levels, in hundredths:
\* (resistance - entry) / (entry - stop); None without levels or without risk
LevelsRR(tl) ==
    IF tl = None THEN None
    ELSE IF tl[1].entry - tl[1].stop <= 0 THEN None
    ELSE Some(PyRound((tl[1].resistance - tl[1].entry) * 100, tl[1].entry - tl[1].stop))

\* C8 as stated: no go-list entry has a recomputed risk/reward under 2.0,
\* neither by get_risk_reward on the frame fetched for it nor by the trade
\* levels recomputed from that frame.
C8_Original ==
    MorningSaved =>
        \A i \in 1..Len(SavedGolist) :
            LET df == morning_in.data[SavedGolist[i].symbol].df
                rr == get_risk_reward(df)
                lr == LevelsRR(SavedGolist[i].trade_levels)
            IN  ~(rr # None /\ rr[1] < 200 /\ lr # None /\ lr[1] < 200)

\* C9: every go-list entry has pm_change > 0.3, and every evening pick whose
\* pre-market change is 0.3% or less is left out, whatever its grade.
C9_PmFloor ==
    MorningSaved =>
        /\ \A i \in 1..Len(SavedGolist) : SavedGolist[i].pm_change > 30
        /\ \A i \in 1..Len(morning_in.picks) :
              morning_in.data[morning_in.picks[i].symbol].pm <= 30
                  => ~InGolist(morning_in.picks[i].symbol)

\* a grade A pick with pre-market change 0.2% is left out of a go-list that
\* another pick of the same run entered
C9_Witness ==
    /\ MorningSaved
    /\ Len(SavedGolist) >= 1
    /\ \E i \in 1..Len(morning_in.picks) :
          /\ morning_in.picks[i].grade = "A"
          /\ morning_in.data[morning_in.picks[i].symbol].fetched
          /\ morning_in.data[morning_in.picks[i].symbol].pm = 20
          /\ ~InGolist(morning_in.picks[i].symbol)

\* C10: when the broad-market condition a run computes is bearish, the
\* go-list that run saves is empty; no saved entry carries the bearish
\* condition.
C10_BearishEmpties ==
    MorningSaved =>
        /\ SpyCondition(morning_in.spy) = "bearish" => SavedGolist = <<>>
        /\ \A i \in 1..Len(SavedGolist) : SavedGolist[i].spy_condition # "bearish"

\* a bearish run whose picks all cleared the pre-market floor saved nothing
C10_Witness ==
    /\ MorningSaved
    /\ SpyCondition(morning_in.spy) = "bearish"
    /\ Len(morning_in.picks) = 2
    /\ \A i \in 1..Len(morning_in.picks) :
          /\ morning_in.data[morning_in.picks[i].symbol].fetched
          /\ morning_in.data[morning_in.picks[i].symbol].pm = 150
          /\ morning_in.data[morning_in.picks[i].symbol].df = FrameHighRR
    /\ SavedGolist = <<>>

\* the rank of a go-list entry under the stated key, component by component
CatalystRank(x) == IF x.has_catalyst THEN 0 ELSE 1

GradeRank(x) == CASE x.grade = "A" -> 0 [] x.grade = "B" -> 1 [] OTHER -> 2

\* C22: the saved go-list is ordered by (has_catalyst first, then grade A
\* before B before C, then pm_change descending): of two adjacent entries the
\* earlier one is not greater than the later one under that key.
C22_GolistOrdered ==
    MorningSaved =>
        \A i \in 1..(Len(SavedGolist) - 1) :
            LET x == SavedGolist[i]
                y == SavedGolist[i + 1]
            IN  \/ CatalystRank(x) < CatalystRank(y)
                \/ /\ CatalystRank(x) = CatalystRank(y)
                   /\ GradeRank(x) < GradeRank(y)
                \/ /\ CatalystRank(x) = CatalystRank(y)
                   /\ GradeRank(x) = GradeRank(y)
                   /\ x.pm_change >= y.pm_change

\* every component of the key decided in one go-list of three: the pick
\* graded C was moved to the front for its catalyst, though the other two
\* are graded higher and one has the higher pm_change; of the other two the
\* one graded A stands before the one graded B, whose pm_change is higher
C22_Witness ==
    /\ MorningSaved
    /\ Len(SavedGolist) = 3
    /\ SavedGolist[1].symbol = morning_in.picks[3].symbol
    /\ SavedGolist[1].has_catalyst /\ ~SavedGolist[2].has_catalyst
    /\ ~SavedGolist[3].has_catalyst
    /\ SavedGolist[1].grade = "C" /\ SavedGolist[2].grade = "A"
    /\ SavedGolist[3].grade = "B"
    /\ SavedGolist[1].pm_change < SavedGolist[3].pm_change
    /\ SavedGolist[2].pm_change < SavedGolist[3].pm_change

(***************************************************************************)
(* Claims on the dispatcher (checked under Spec)                           *)
(***************************************************************************)

ExecutingWorkers == {w \in Workers : Executing(w)}

\* C1 as stated: at any moment at most one scan (evening, morning or
\* backtest) is executing, over every interleaving of the manual triggers
\* and the scheduler jobs.
C1_Original == Cardinality(ExecutingWorkers) <= 1

(***************************************************************************)
(* Claims on the adjustment model (checked under SpecModel)                *)
(***************************************************************************)

\* C11: while the retained history holds fewer than 20 resolved picks with
\* features, no run of train_ml_model changes the weights file: it keeps its
\* content, or stays absent.
C11_TrainingSkipped ==
    [][Len(TrainingPicks(history_file)) < MIN_TRAIN_PICKS => ml_file' = ml_file]_vars

\* train_ml_model counted 19 picks, returned None, and the weights file still
\* holds the document it held before
C11_Witness ==
    /\ ml_log.train = Some([picks |-> 19, ret |-> "None"])
    /\ Len(TrainingPicks(history_file)) = 19
    /\ ml_file = Some(DocRvol)

\* C19 as stated: for every feature record and every stored weights document
\* the adjustment get_ml_adjustment returns lies in [-1,+1], and
\* score_stock_v4 adds round(adjustment x 2) points for it, within [-2,+2]
\* (the call does not raise).
C19_Original ==
    /\ ml_log.adjust => ml_adj # NAN_ADJUSTMENT /\ -100 <= ml_adj /\ ml_adj <= 100
    /\ scored # NotScored =>
          /\ scored.reasons # ScoreRaised.reasons
          /\ PyRound(ml_adj * 2, 100) \in -2..2

(***************************************************************************)
(* Claims on the evening scan (checked under SpecScan / SpecScanFair)      *)
(***************************************************************************)

ScanDone == scan.pc = "done"

SymbolsOf(picks) == {picks[i].symbol : i \in 1..Len(picks)}

HistorySymbols == UNION {SymbolsOf(history_file[i].picks) : i \in 1..Len(history_file)}

\* C12: the persisted shortlist is sorted by score descending, holds at most
\* 15 picks, holds only picks with score >= 3, and no scored symbol left out
\* of it has a higher score than a pick kept in it.
C12_ShortlistSorted ==
    ScanDone =>
        /\ Len(ResultsOf(results_file)) <= SHORTLIST_MAX
        /\ \A i \in 1..Len(ResultsOf(results_file)) : ResultsOf(results_file)[i].score >= 30
        /\ \A i \in 1..Len(ResultsOf(results_file)) : \A j \in 1..Len(ResultsOf(results_file)) :
              i < j => ResultsOf(results_file)[i].score >= ResultsOf(results_file)[j].score
        /\ \A k \in 1..Len(scan.seen) :
              (scan.seen[k].what = "scored" /\ scan.seen[k].symbol \notin SymbolsOf(ResultsOf(results_file)))
                  => \A i \in 1..Len(ResultsOf(results_file)) :
                        scan.seen[k].score <= ResultsOf(results_file)[i].score

\* a run kept 15 picks out of more that scored 3 or higher, and the pick it
\* ranks first was not the first one the loop appended
C12_Witness ==
    /\ ScanDone
    /\ Len(ResultsOf(results_file)) = SHORTLIST_MAX
    /\ \E k \in 1..Len(scan.seen) :
          /\ scan.seen[k].what = "scored" /\ scan.seen[k].score >= 30
          /\ scan.seen[k].symbol \notin SymbolsOf(ResultsOf(results_file))
    /\ \E k \in 1..Len(scan.seen) :
          /\ scan.seen[k].what = "scored" /\ scan.seen[k].score >= 30
          /\ scan.seen[k].symbol < ResultsOf(results_file)[1].symbol
          /\ scan.seen[k].score < ResultsOf(results_file)[1].score

\* C13: no symbol whose dollar volume is below 10,000,000 appears in the
\* persisted shortlist or in a history entry, whatever its other features.
C13_NoThinSymbol ==
    /\ \A i \in 1..WatchlistLen :
          MarketData(scan.market[i]).f.dollar_vol < 10000000 =>
              /\ DEFAULT_WATCHLIST[i] \notin SymbolsOf(ResultsOf(results_file))
              /\ DEFAULT_WATCHLIST[i] \notin HistorySymbols
    /\ \A i \in 1..Len(ResultsOf(results_file)) : ResultsOf(results_file)[i].features.dollar_vol >= 10000000

\* a run scored a symbol with 7M dollar volume and otherwise the best
\* features, gave it 0, and persisted a shortlist and a history entry
C13_Witness ==
    /\ ScanDone
    /\ Len(ResultsOf(results_file)) >= 1 /\ Len(history_file) >= 1
    /\ \E k \in 1..Len(scan.seen) :
          /\ scan.market[scan.seen[k].symbol] = "best7m"
          /\ scan.seen[k].what = "scored" /\ scan.seen[k].score = 0

\* the symbol at position k yields no data, too few bars, an exception in
\* feature extraction, or an exception in scoring (a weights document that
\* gives nan for a symbol past the floor of score_stock_v4)
FailsAt(k) ==
    LET d == MarketData(scan.market[k])
    IN  \/ ~d.fetched \/ d.bars < MIN_BARS \/ d.raises
        \/ ml_file = Some(DocZeroScale) /\ d.f.dollar_vol >= DOLLAR_VOL_FLOOR

\* the run is at or past save_json(RESULTS_FILE, output) of line 1035, the
\* step that persists the shortlist
PersistStepTaken == scan.pc \in {"history", "done"}

\* the loop has started on every symbol of the watchlist in order, a failing
\* symbol was skipped or caught and no other symbol was
EverySymbolProcessed ==
    /\ Len(scan.seen) = WatchlistLen
    /\ \A j \in 1..WatchlistLen :
          /\ scan.seen[j].symbol = DEFAULT_WATCHLIST[j]
          /\ FailsAt(j) => scan.seen[j].what \in {"skipped", "failed"}
          /\ ~FailsAt(j) => scan.seen[j].what \in {"skipped", "scored"}

\* C14 as stated: a failure while one symbol is processed skips only that
\* symbol: the loop goes on to every later symbol and the run reaches the
\* step that persists the shortlist.  Of a run that has left the loop: every
\* symbol was processed, the failing ones skipped; of a run with a failing
\* symbol that has ended: it did not end before that step.
C14_Original ==
    /\ ((scan.pc = "loop" /\ scan.i > WatchlistLen) \/ PersistStepTaken
           \/ scan.pc = "raised_output") => EverySymbolProcessed
    /\ (~ScanRunning /\ \E k \in 1..WatchlistLen : FailsAt(k)) => PersistStepTaken

\* the part of C14 that holds: after a failing symbol the loop goes on to
\* every later symbol, and the run leaves the loop with every symbol
\* processed; it then persists the shortlist unless building the output
\* raises
FailureLeavesLoopWhole ==
    /\ (scan.pc = "loop" /\ scan.i <= WatchlistLen /\ FailsAt(scan.i))
           ~> (PersistStepTaken \/ scan.pc = "raised_output")
    /\ [](scan.pc \in {"history", "done", "raised_output"} => EverySymbolProcessed)

GapTotal(gaps, symbol) ==
    DictGet(gaps, symbol, [total |-> 0, filled |-> 0, continued |-> 0]).total

\* C16 as stated: after an evening scan that processed a symbol whose last
\* bar opened with a gap (the bar is complete, so the gap's fate is
\* observed), that symbol's total in the gap-history file is higher than it
\* was when the run began.
C16_Original ==
    ScanDone =>
        \A k \in 1..Len(scan.seen) :
            (scan.seen[k].what = "scored"
                /\ MarketData(scan.market[scan.seen[k].symbol]).f.gap_pct # 0)
                => GapTotal(gap_file, scan.seen[k].symbol)
                       > GapTotal(scan.gap_start, scan.seen[k].symbol)

(***************************************************************************)
(* Claims on the persisted artifacts (checked under SpecSave)              *)
(***************************************************************************)

\* C15 as stated: when save_json fails while writing an artifact that is on
\* disk, the file keeps the content it had before the call (neither
\* truncated nor partly written), and the run result is still returned to
\* the caller.
C15_Original ==
    [][/\ (disk # None /\ saving.pc = "idle" /\ saving'.pc = "saved" /\ save_error')
             => disk' = disk
       /\ (saving.pc = "saved" /\ saving'.pc = "idle") => returned' = Some(saving.output)
    ]_vars

(***************************************************************************)
(* Claims on the history's retention (checked under SpecKeep)              *)
(***************************************************************************)

DatesOf(h) == {h[i].date : i \in 1..Len(h)}

\* the n highest of a set of dates
Latest(dates, n) == {d \in dates : Cardinality({e \in dates : e > d}) < n}

\* C21: the history holds at most 90 entries, and after each
\* save_scan_to_history the dates kept are the 90 most recently written of
\* the dates held before and the date just saved.
C21_KeepsLatest ==
    /\ [](Len(history_file) <= HISTORY_KEEP)
    /\ [][(lastop'.op = "save_scan_to_history" /\ today' = today) =>
            /\ Cardinality(DatesOf(history_file')) = Len(history_file')
            /\ DatesOf(history_file')
                   = Latest(DatesOf(history_file) \cup {today}, HISTORY_KEEP)]_vars

\* a save on a history of 90 entries dropped the entry of day 1 and nothing
\* else: 90 entries are held, the oldest is of day 2, the newest of today
C21_Witness ==
    /\ lastop.op = "save_scan_to_history"
    /\ Len(history_file) = HISTORY_KEEP
    /\ history_file[1].date = 2
    /\ history_file[HISTORY_KEEP].date = today

(***************************************************************************)
(* Claims on the feature extractors (checked under SpecCall)               *)
(***************************************************************************)

\* C23 as stated: the score get_short_squeeze_score returns is one of 0, 1,
\* 2 for every short-percent-of-float and short-ratio input.
C23_Original ==
    call.fn = "get_short_squeeze_score" => result[1].score \in {0, 1, 2}

\* the 5-day return of c is strictly greater than that of d
Outperforms(c, d) ==
    (c[Len(c)] - c[Len(c) - 4]) * d[Len(d) - 4] > (d[Len(d)] - d[Len(d) - 4]) * c[Len(c) - 4]

\* C30 as stated: get_sector_leader_score returns a nonzero score only when
\* the symbol's sector ETF is hot and the symbol's 5-day return is strictly
\* greater than the broad-market proxy's, whatever the sign of the returns.
C30_Original ==
    (call.fn = "get_sector_leader_score" /\ result[1].score # 0) =>
        /\ call.in.etfs # <<>>
        /\ DictGet(call.in.rotation, call.in.etfs[1], "neutral") = "hot"
        /\ Outperforms(call.in.close, call.in.spy_close[1])

(***************************************************************************)
(* Claims on the trade log (checked under SpecScan)                        *)
(***************************************************************************)

\* C26 as stated: run_scanner runs to completion and persists its result
\* file whatever the trade-log file contains, the mapping written by POST
\* /api/trade-log included: a run that is no longer running has saved its
\* shortlist.
C26_Original ==
    ~ScanRunning => (scan.pc = "done" /\ results_file = Some(scan.results))

(***************************************************************************)
(* Claims on the order of a run (checked under SpecRun)                    *)
(***************************************************************************)

\* C24: within one run the outcome pass comes first, then training, then the
\* scoring of every symbol, then the shortlist is persisted and the history
\* entry appended: training counts the picks of the history the outcome pass
\* saved, no symbol is scored before training has finished, nothing is
\* persisted before every symbol was scored, and the history entry of the
\* day holds exactly the picks of the persisted shortlist.
C24_RunOrder ==
    /\ [][scan'.pc = "train" /\ scan.pc # "train" =>
            /\ ml_log.train = None
            /\ \E fetch \in FetchMaps :
                  history_file' = update_outcomes(history_file, today, fetch)]_vars
    /\ [][(ml_log.train = None /\ ml_log'.train # None) =>
            /\ scan.pc = "train"
            /\ ml_log'.train[1].picks = Len(TrainingPicks(history_file))
            /\ history_file' = history_file
            /\ scan.seen = <<>>]_vars
    /\ [](scan.seen # <<>> => ml_log.train # None)
    /\ [][results_file' # results_file =>
            /\ Len(scan.seen) = WatchlistLen
            /\ scan'.pc = "history"
            /\ \A i \in 1..Len(history_file) : history_file[i].date # today]_vars
    /\ [][Len(history_file') # Len(history_file) =>
            /\ scan.pc = "history" /\ scan'.pc = "done"
            /\ results_file = Some(scan.results)]_vars
    /\ [](ScanDone =>
            /\ Len(scan.seen) = WatchlistLen
            /\ results_file = Some(scan.results)
            /\ history_file[Len(history_file)].date = today
            /\ LET picks == history_file[Len(history_file)].picks
               IN  /\ Len(picks) = Len(ResultsOf(results_file))
                   /\ \A j \in 1..Len(picks) :
                         /\ picks[j].symbol = ResultsOf(results_file)[j].symbol
                         /\ picks[j].score = ResultsOf(results_file)[j].score
                         /\ picks[j].outcome = Pending)

\* a completed run whose outcome pass resolved yesterday's three pending
\* picks, which brought training from 19 picks to 22 and so to a fit
C24_Witness ==
    /\ ScanDone
    /\ ml_log.train = Some([picks |-> 22, ret |-> "data"])
    /\ ml_file # None
    /\ Len(history_file) = 2
    /\ ResultsOf(results_file) # <<>>

(***************************************************************************)
(* Claims on the backtest (checked under SpecBacktest)                     *)
(***************************************************************************)

\* the frame of the symbol a recorded signal belongs to
FrameOf(sig) == backtest.market[sig.s][1]

\* whether the close nxt exceeds the close last by more than 1%, as the
\* values the program holds: the doubles of the two closes, compared
\* exactly (100 * nxt > 101 * last)
ExceedsByOnePercent(nxt, last) ==
    BigCmp(BigMulInt(FAlign(nxt, FMinExp(nxt, last)), 100, 0),
           BigMulInt(FAlign(last, FMinExp(nxt, last)), 101, 0)) > 0

\* C25: the signal run_backtest records at bar i is computed from bars 0..i
\* only and wins exactly when the close of bar i+1 exceeds the close of bar
\* i by more than 1%: any frame that agrees on bars 0..i gives the same
\* signal at i, whatever its later bars are.  (Stated of the signal recorded
\* last, which every signal is in the state after its bar.)
C25_NoLookAhead ==
    (backtest.pc \in {"fetch", "loop"} /\ backtest.signals # <<>>) =>
        \A k \in {Len(backtest.signals)} :
            LET sig == backtest.signals[k]
                df  == FrameOf(sig)
            IN  /\ sig.won <=> ExceedsByOnePercent(FHundredths(df[sig.i + 2].Close),
                                                   FHundredths(df[sig.i + 1].Close))
                /\ \A df2 \in BacktestFrames :
                      (Len(df2) >= sig.i + 2
                         /\ SubSeq(df2, 1, sig.i + 1) = SubSeq(df, 1, sig.i + 1)) =>
                        BacktestSignal(BacktestSlice(df2, sig.i))
                            = [signal |-> TRUE, n |-> sig.n, grade |-> sig.grade]

\* a signal was recorded at a bar closing at 103.00 whose next bar closes at
\* 104.03, a win (the double of 104.03 lies above 1.01 * 103), in a frame
\* that has a later bar, of which another frame holds another kind
C25_Witness ==
    /\ backtest.pc \in {"fetch", "loop"} /\ backtest.signals # <<>>
    /\ LET sig == backtest.signals[Len(backtest.signals)]
           df  == FrameOf(sig)
       IN  /\ df[sig.i + 1].Close = 10300 /\ df[sig.i + 2].Close = 10403
           /\ sig.won
           /\ Len(df) > sig.i + 2
           /\ \E df2 \in BacktestFrames :
                 /\ Len(df2) = Len(df) /\ df2 # df
                 /\ SubSeq(df2, 1, sig.i + 2) = SubSeq(df, 1, sig.i + 2)

\* C29: run_backtest never records grade A: a point total is at most 9 of
\* 12, so a score is at most 7.5 and by_grade A keeps total 0 and wins 0;
\* winning_signals never exceeds total_signals and the by_grade totals sum
\* to total_signals.
C29_NoGradeA ==
    backtest.pc # "idle" =>
        LET res == backtest.res
        IN  /\ res.by_grade["A"].total = 0 /\ res.by_grade["A"].wins = 0
            /\ \A k \in 1..Len(backtest.signals) :
                  backtest.signals[k].n <= 75 /\ backtest.signals[k].grade # "A"
            /\ res.winning_signals <= res.total_signals
            /\ res.by_grade["A"].total + res.by_grade["B"].total + res.by_grade["C"].total
                  = res.total_signals
            /\ res.total_signals = Len(backtest.signals)
            /\ \A g \in {"A", "B", "C"} : res.by_grade[g].wins <= res.by_grade[g].total

\* a finished backtest saved a result with a signal of the highest score,
\* 7.5 (grade B), a grade C signal, a win and a loss
C29_Witness ==
    /\ backtest.pc = "done"
    /\ backtest.saved # None
    /\ \E k \in 1..Len(backtest.signals) :
          backtest.signals[k].n = 75 /\ backtest.signals[k].grade = "B"
    /\ backtest.res.by_grade["C"].total > 0
    /\ backtest.res.winning_signals > 0
    /\ backtest.res.winning_signals < backtest.res.total_signals

(***************************************************************************)
(* Claims on the background threads (checked under SpecManual)             *)
(***************************************************************************)

\* a trigger would be accepted: the flag is down and a thread can be started
TriggerAccepted ==
    ~scan_status.running /\ \E w \in ManualWorkers : threads[w].pc = "idle"

\* C27: every background scan a manual trigger started ends, and ends by
\* setting scan_status.running to false, whether the scan returned or
\* raised; the step in which it raises puts the error text in
\* scan_status.error and leads to the same end, after which a trigger is
\* accepted again.
C27_BackgroundEnds ==
    /\ \A w \in ManualWorkers : (threads[w].pc = "spawned") ~> (threads[w].pc = "idle")
    /\ [][\A w \in ManualWorkers :
              (threads[w].pc # "idle" /\ threads'[w].pc = "idle") =>
                  (threads[w].pc = "finally" /\ TriggerAccepted')]_vars
    /\ [][\A w \in ManualWorkers :
              (~threads[w].raised /\ threads'[w].raised) =>
                  (scan_status'.error = "error" /\ threads'[w].pc = "finally")]_vars

\* a trigger was accepted after a background scan raised and ended: the
\* flag is down, the error text is still there, and the only thread is the
\* one just started
C27_Witness ==
    /\ response = [answer |-> "started", pending |-> 0]
    /\ ~scan_status.running
    /\ scan_status.error = "error"
    /\ threads[1].pc = "spawned"
    /\ \A w \in ManualWorkers \ {1} : threads[w].pc = "idle"

(***************************************************************************)
(* Claims on concurrent scan runs (checked under Spec)                     *)
(***************************************************************************)

\* the pick of the given symbol in the entry of the given date is resolved
ResolvedIn(h, date, symbol) ==
    \E i \in 1..Len(h) :
        /\ h[i].date = date
        /\ \E j \in 1..Len(h[i].picks) :
              h[i].picks[j].symbol = symbol /\ h[i].picks[j].outcome # Pending

\* C28 as stated: the load-modify-save updates of the history file never
\* lose a write, however two scan runs interleave: an outcome that a run
\* resolved and saved is still resolved in the file after every later step.
C28_Original ==
    [][\A d \in 0..MaxScanDay, sym \in Symbols :
          (d < today /\ ResolvedIn(history_file, d, sym)) =>
              ResolvedIn(history_file', d, sym)]_vars

====
